---- MODULE Spec2Model ----
(***************************************************************************)
(* Model of muxctl's tmux layout Manager (pkg/tmux), the pane registry,    *)
(* the single-slot swap protocol and its reconciliation pass, together     *)
(* with the tmux server the Manager drives through tmuxCmd.                *)
(*                                                                         *)
(* Pane ids are naturals (0 stands for the empty string).  tmux never      *)
(* reuses a pane id, so ids are handed out by a counter.  A window is      *)
(* identified by the id of the pane it was created with.                   *)
(***************************************************************************)
EXTENDS Naturals, Integers, Sequences, FiniteSets, TLC

\* ------------------------------------------------------------------ bounds
MaxPanes == 5          \* pane ids the tmux server may hand out in a run
MaxIndex == 3          \* highest window index of the session
MaxSize == 2           \* largest maxWindows an LRU WindowPool is built with
MaxBuf == 2            \* largest buffer of a channel handed to Subscribe
MaxSubs == 2           \* registrations a ContextManager takes in a run
MaxLeakPanes == 6      \* pane ids the server may hand out in a run of whole, unfailing calls
MaxTurns == 3          \* turns a conversation may hold in a run
MaxStarts == 3         \* listeners a Server opens in a run
MaxConns == 3          \* connections a Server accepts in a run
MaxChunks == 3         \* reads of the PTY master that return bytes in a run
MaxOutput == 2         \* chunks outputChan holds in a run (the code's channel holds 256)
MaxCtlPanes == 4       \* pane ids the TmuxController's session may hand out in a run

\* ---------------------------------------------------------------- inputs
ResourceIDs == {"a", "p-x"}     \* resource ids callers activate and close
PoolIDs == {"x", "y"}              \* ids callers hand to the Manager-backed pool
prefix == "p-"                  \* WindowPool.prefix
maxWindows == 1                 \* WindowPool.maxWindows

NoPane == 0
NoID == ""

VARIABLES
  wins,            \* tmux server: window id -> sequence of pane ids (top to bottom)
  nextPane,        \* tmux server: next pane id to hand out
  bottomPane,      \* Manager.bottomPane
  resourcePanes,   \* Manager.resourcePanes
  aiPanes,         \* Manager.aiPanes
  activeResource,  \* Manager.activeResource
  activeAIChat,    \* Manager.activeAIChat
  stashedPanes,    \* Manager.stashedPanes
  windows,         \* WindowPool.windows (Manager-backed pool)
  impl,            \* which part of the program the run is built around
  lruMaxWindows,   \* LRU WindowPool.maxWindows
  lruWindows,      \* LRU WindowPool.windows: the full names that have an entry
  lruWindowID,     \* LRU WindowPool.windows: WindowEntry.WindowID of each entry
  lru,             \* LRU WindowPool.lru: full names, front of the list first
  session,         \* tmux session: window index -> window name
  activeWin,       \* tmux session: index of the selected window
  callers,         \* goroutines inside AttachResourceTerminal: where each one is
  cpanes,          \* tmux session of the TmuxController: pane ids of its window, by index
  cnext,           \* tmux session of the TmuxController: next pane id to hand out
  sessionVars,     \* tmux session options @muxctl_top, @muxctl_left, @muxctl_right
  workerCalls,     \* the tmux commands issued so far from fan-out goroutines
  fan,             \* getAllPaneIDs in progress: its goroutines, channel and results
  cmCtx,           \* ContextManager.ctx
  subscribers,     \* ContextManager.subscribers: the channels, in order of registration
  chans,           \* the subscribers' channels: capacity and buffered contexts
  shells,          \* ContextShellPool.shells of either package: context -> window or pane id
  shellsMu,        \* ContextShellPool.shellsMu (internal/embedded): read holders and write holder
  shellWindows,    \* tmux: the windows created for a context shell, id -> context
  poolCalls,       \* goroutines inside GetOrCreate or GetOrCreateContext: where each one is
  fatal,           \* the Go runtime has thrown on a concurrent map access
  conversations,   \* ConversationManager.conversations: id -> State and the roles of Turns
  convEnded,       \* observer: the conversations on which End has succeeded
  aiServer,        \* the AI Server: running, shutdown, listener, and its accept loops
  pty,             \* the PTY: its fields, its channels, the tmux process, its two goroutines
  last,            \* observer: the call that produced this state and how it returned
  hist,            \* observer: the two calls before the last one
  watch,           \* observer: the calls it records
  detail           \* observer: whether it records argument and outcome too

lruVars == <<lruMaxWindows, lruWindows, lruWindowID, lru, session, activeWin>>

\* the state of the parts that take no step in a run of the Manager's or
\* the LRU pool's handlers as whole calls
ctlVars == <<cpanes, cnext, sessionVars, workerCalls, fan>>
ctxVars == <<cmCtx, subscribers, chans>>
shVars == <<shells, shellsMu, shellWindows, poolCalls, fatal>>
convVars == <<conversations, convEnded>>
srvVars == <<aiServer>>
ptyVars == <<pty>>
moreVars == <<shVars, convVars, srvVars, ptyVars>>
sideVars == <<callers, ctlVars, ctxVars, moreVars>>

vars == <<wins, nextPane, bottomPane, resourcePanes, aiPanes, activeResource,
          activeAIChat, stashedPanes, windows, impl, lruVars, sideVars, last, hist,
          watch, detail>>

\* Manager.mainWindow, Manager.tuiPane, Manager.stashWindow.  The AI stash
\* window is created by Setup and not looked at again before Cleanup, and
\* aiCounter is only ever written; both are left out.
mainWindow == 1
tuiPane == 1
stashWindow == 3

\* ------------------------------------------------------------ tmux server
Range(s) == {s[i] : i \in 1..Len(s)}

EmptyMap == [x \in {} |-> NoPane]

Restrict(f, S) == [x \in S |-> f[x]]

\* every pane that exists on the server (list-panes -a)
LivePanes(W) == UNION {Range(W[w]) : w \in DOMAIN W}

IndexOf(s, p) == CHOOSE i \in 1..Len(s) : s[i] = p

WithoutPane(s, p) == SelectSeq(s, LAMBDA q : q # p)

\* kill-pane -t p : the pane goes, and its window with it when it was the last one
KillPane(W, p) ==
  LET keep == {w \in DOMAIN W : W[w] # <<p>>}
  IN [w \in keep |-> WithoutPane(W[w], p)]

\* swap-pane -s s -t t : the two panes exchange positions, ids stay with content
SwapPane(W, s, t) ==
  [w \in DOMAIN W |->
     [i \in 1..Len(W[w]) |->
        IF W[w][i] = s THEN t ELSE IF W[w][i] = t THEN s ELSE W[w][i]]]

\* new-window -d : a new window holding one new pane
NewWindow(W, k) == W @@ (k :> <<k>>)

\* split-window -v -t t : a new pane right below pane t, in t's window
SplitWindow(W, t, k) ==
  [w \in DOMAIN W |->
     IF t \in Range(W[w])
     THEN LET i == IndexOf(W[w], t)
          IN SubSeq(W[w], 1, i) \o <<k>> \o SubSeq(W[w], i + 1, Len(W[w]))
     ELSE W[w]]

\* ----------------------------------------------------------------- ghost
PaneOf(m, id) == IF id \in DOMAIN m THEN m[id] ELSE NoPane

\* a past call as the history keeps it: a successful activation of a resource
\* with the pane it was bound to afterwards, or just "something else happened"
Other == [op |-> "other", arg |-> NoID, pane |-> NoPane]

Past ==
  IF "history" \in watch /\ last.op = "AttachResourceTerminal" /\ ~last.err
  THEN [op |-> last.op, arg |-> last.arg, pane |-> PaneOf(resourcePanes, last.arg)]
  ELSE Other

Unwatched == [op |-> "other", arg |-> NoID, err |-> FALSE, note |-> "", ret |-> 0]

\* what a finished call leaves with the observer
ReturnedWith(op, arg, err, note, ret) ==
  /\ last' = IF op \notin watch THEN Unwatched
             ELSE IF detail
             THEN [op |-> op, arg |-> arg, err |-> err, note |-> note, ret |-> ret]
             ELSE [op |-> op, arg |-> NoID, err |-> FALSE, note |-> "", ret |-> 0]
  /\ hist' = <<Past, hist[1]>>
  /\ UNCHANGED <<watch, detail>>

\* the same for a call that returns nothing but an error
Returned(op, arg, err, note) == ReturnedWith(op, arg, err, note, 0)

\* a run around the Manager has no LRU WindowPool and no windows for it
NoLRUPool ==
  /\ lruMaxWindows = 0
  /\ lruWindows = {}
  /\ lruWindowID = EmptyMap
  /\ lru = <<>>
  /\ session = <<>>
  /\ activeWin = 0

\* RoleTop, RoleLeft, RoleRight, in the order of the roles slice of getAllPaneIDs
Roles == {"top", "left", "right"}
RoleList == <<"top", "left", "right">>

\* the tmux commands a worker of getAllPaneIDs issues through GetPaneID
LookupCalls == {"show-options", "list-panes"}

\* the zero value of a looked-up id and flag, and getAllPaneIDs not running
NotFound == [id |-> NoPane, ok |-> FALSE]
FanIdle ==
  [at |-> "idle", workers |-> [r \in Roles |-> [at |-> "none", id |-> NoPane, ok |-> FALSE]],
   results |-> <<>>, got |-> [r \in Roles |-> NotFound], n |-> 0, order |-> <<>>]

\* a run without a TmuxController
NoController ==
  /\ fan = FanIdle
  /\ cpanes = <<>>
  /\ cnext = 1
  /\ sessionVars = [r \in Roles |-> NoPane]
  /\ workerCalls = {}

\* the goroutines that call into one Manager, none of them inside a call
Callers == {"g1", "g2"}
Idle == [at |-> "idle", id |-> NoID, pane |-> NoPane]
NoCalls == callers = [c \in Callers |-> Idle]

\* Context{} with the two fields the model follows, and the channels a
\* caller may hand to Subscribe
EmptyContext == [Cluster |-> "", Namespace |-> ""]
Chans == {"k1", "k2"}

\* a run without a ContextManager
NoContext ==
  /\ cmCtx = EmptyContext
  /\ subscribers = <<>>
  /\ chans = [ch \in Chans |-> [cap |-> 1, buf |-> <<>>]]

\* contexts handed to a ContextShellPool, and a goroutine outside any call
Contexts == {"x", "y"}
NoPoolCall == [at |-> "idle", ctx |-> NoID, pane |-> NoPane, ret |-> 0, err |-> FALSE]

\* NewContextShellPool of either package: an empty map, nobody holding the lock
NoShells ==
  /\ shells = EmptyMap
  /\ shellsMu = [readers |-> {}, writer |-> NoID]
  /\ shellWindows = EmptyMap
  /\ poolCalls = [c \in Callers |-> NoPoolCall]
  /\ fatal = FALSE

\* NewConversationManager
NoConversations ==
  /\ conversations = EmptyMap
  /\ convEnded = {}

\* NewServer: not running, the shutdown channel made and open, no listener
NewServer ==
  [running |-> FALSE, shutdown |-> "open", listener |-> 0, listeners |-> <<>>,
   loops |-> <<>>, accepted |-> 0, panicked |-> FALSE]
NoServer == aiServer = NewServer

\* pty.New: the master open, errorChan of capacity 1 and empty, stopReadCh
\* open, no tmux process and no goroutine yet; chunks counts the reads that
\* returned bytes
NewPTY ==
  [closed |-> FALSE, master |-> "open", stopReadCh |-> "open", tmux |-> "none",
   errorChan |-> <<>>, outputChan |-> 0, chunks |-> 0, reader |-> "none",
   waiter |-> "none"]
NoPTY == pty = NewPTY

NoMore == NoShells /\ NoConversations /\ NoServer /\ NoPTY

\* the parts that are not in a run of the Manager's or a pool's whole calls
NoSide == NoCalls /\ NoController /\ NoContext /\ NoMore

\* the state Setup leaves: TUI pane and placeholder in the main window, one
\* shell in the stash window
SetupDone ==
  /\ wins = (1 :> <<1, 2>>) @@ (3 :> <<3>>)
  /\ nextPane = 4
  /\ bottomPane = 2
  /\ resourcePanes = EmptyMap
  /\ aiPanes = EmptyMap
  /\ activeResource = NoID
  /\ activeAIChat = NoID
  /\ stashedPanes = <<>>
  /\ windows = EmptyMap
  /\ last = Unwatched
  /\ hist = <<Other, Other>>

InitManager == SetupDone /\ NoSide /\ impl = "manager" /\ NoLRUPool

\* NewWindowPool(ctrl, maxWindows, prefix) in a session that has its first
\* window; the Manager of the other package is not part of such a run
LRUBuilt ==
  /\ SetupDone
  /\ NoSide
  /\ impl = "lru"
  /\ lruMaxWindows \in 0..MaxSize
  /\ lruWindows = {}
  /\ lruWindowID = EmptyMap
  /\ lru = <<>>
  /\ session = (0 :> "main")
  /\ activeWin = 0

LRUOps == {"LRU.GetOrCreate", "LRU.Close"}
InitLRU == LRUBuilt /\ watch = LRUOps /\ detail = TRUE
InitPools ==
  /\ InitManager \/ LRUBuilt
  /\ watch = {"LRU.GetOrCreate", "Pool.GetOrCreate"}
  /\ detail = TRUE

\* a Manager that only the Manager-backed WindowPool calls
PoolOps == {"Pool.GetOrCreate", "Pool.Switch", "Pool.Close"}
InitPoolOnly == InitManager /\ watch = PoolOps /\ detail = TRUE

\* a step of a run built around the Manager (and its pool)
ManagerRuns == impl = "manager" /\ UNCHANGED <<impl, lruVars, sideVars>>

PublicOps == {"AttachResourceTerminal", "AttachAIChat", "CloseResourcePane",
              "UpdateStatusBar"}

Init == InitManager /\ watch = {} /\ detail = FALSE
InitQuiet == InitManager /\ watch = {} /\ detail = FALSE
InitActivate == InitManager /\ watch = {"AttachResourceTerminal", "AttachAIChat"} /\ detail = TRUE
InitClose == InitManager /\ watch = {"CloseResourcePane"} /\ detail = TRUE
InitReconcile == InitManager /\ watch = {"UpdateStatusBar"} /\ detail = TRUE
InitPublic == InitManager /\ watch = PublicOps /\ detail = FALSE
InitDrift == InitManager /\ watch = PublicOps /\ detail = TRUE
\* what an earlier run may have left in a session option: nothing, the id of
\* the session's first pane, or the id of the pane the next split creates
PriorIDs == {NoPane, 1, 2}

\* TmuxController.Init is called on a session that has one window with one
\* pane; the three session options hold anything an earlier run left there
InitController ==
  /\ SetupDone
  /\ NoLRUPool
  /\ NoCalls
  /\ NoContext
  /\ NoMore
  /\ impl = "controller"
  /\ cpanes = <<1>>
  /\ cnext = 2
  /\ sessionVars \in [Roles -> PriorIDs]
  /\ workerCalls = {}
  /\ fan = FanIdle
  /\ watch = {"Init"}
  /\ detail = TRUE
\* a fresh session, its three options unset, before Init and the SwapPanes
\* calls that follow it
InitSwap ==
  /\ SetupDone
  /\ NoLRUPool
  /\ NoCalls
  /\ NoContext
  /\ NoMore
  /\ impl = "controller"
  /\ cpanes = <<1>>
  /\ cnext = 2
  /\ sessionVars = [r \in Roles |-> NoPane]
  /\ workerCalls = {}
  /\ fan = FanIdle
  /\ watch = {"Init", "SwapPanes"}
  /\ detail = TRUE

\* the session as a first Init leaves it (top, left and right registered),
\* before a later call of getAllPaneIDs
InitFanOut ==
  /\ SetupDone
  /\ NoLRUPool
  /\ NoCalls
  /\ NoContext
  /\ NoMore
  /\ impl = "controller"
  /\ cpanes = <<1, 2, 3>>
  /\ cnext = 4
  /\ sessionVars = [r \in Roles |-> IndexOf(RoleList, r)]
  /\ workerCalls = LookupCalls \cup {"set-option", "select-pane -T", "respawn-pane"}
  /\ fan = FanIdle
  /\ watch = {}
  /\ detail = FALSE
\* NewManager() of the context package, and the channels made by the callers
\* that will subscribe, each with a buffer of its own size
InitContext ==
  /\ SetupDone
  /\ NoLRUPool
  /\ NoCalls
  /\ NoController
  /\ NoMore
  /\ impl = "context"
  /\ cmCtx = EmptyContext
  /\ subscribers = <<>>
  /\ chans \in [Chans -> {[cap |-> n, buf |-> <<>>] : n \in 1..MaxBuf}]
  /\ watch = {"Set"}
  /\ detail = TRUE
InitConcurrent == InitManager /\ watch = {"AttachResourceTerminal"} /\ detail = TRUE
InitRoundTrip == InitManager /\ watch = {"AttachResourceTerminal", "history"} /\ detail = TRUE

\* ------------------------------------------------------------ the Manager
\* The Manager's fields together with the tmux server it talks to.
State ==
  [wins |-> wins, nextPane |-> nextPane, bottomPane |-> bottomPane,
   resourcePanes |-> resourcePanes, aiPanes |-> aiPanes,
   activeResource |-> activeResource, activeAIChat |-> activeAIChat,
   stashedPanes |-> stashedPanes]

\* listPanesInWindow: fails when tmux fails (gw) or the window is gone
listPanesInWindow(W, w, gw) ==
  IF gw \/ w \notin DOMAIN W
  THEN [err |-> TRUE, panes |-> <<>>]
  ELSE [err |-> FALSE, panes |-> W[w]]

\* the first listed pane that is not the TUI pane (the loops that end in break)
FirstNonTUI(panes, dflt) ==
  IF \E i \in 1..Len(panes) : panes[i] # tuiPane
  THEN panes[CHOOSE i \in 1..Len(panes) :
                /\ panes[i] # tuiPane
                /\ \A j \in 1..(i - 1) : panes[j] = tuiPane]
  ELSE dflt

\* variant: a dead entry is only dropped when it is not the only entry
Prune_some(m, existingPanes) ==
  IF Cardinality(DOMAIN m) <= 1 THEN m
  ELSE Restrict(m, {id \in DOMAIN m : m[id] \in existingPanes})

\* the two loops of cleanupDeadPanes that delete every entry whose pane is
\* not in existingPanes
Prune(m, existingPanes) ==
  Restrict(m, {id \in DOMAIN m : m[id] \in existingPanes})

\* variant: the placeholder is created but not recorded as the slot handle
RecreateSlot_unset(s1, newBottomPane) ==
  [s1 EXCEPT !.wins = SplitWindow(s1.wins, tuiPane, newBottomPane),
             !.nextPane = newBottomPane + 1,
             !.activeResource = NoID,
             !.activeAIChat = NoID]

\* only the TUI pane is left: cleanupDeadPanes splits a new default pane off it
RecreateSlot(s1, newBottomPane) ==
  [s1 EXCEPT !.wins = SplitWindow(s1.wins, tuiPane, newBottomPane),
             !.nextPane = newBottomPane + 1,
             !.bottomPane = newBottomPane,
             !.activeResource = NoID,
             !.activeAIChat = NoID]

\* variant: the first listed pane is taken, whichever it is
AdoptSlot_first(s1, mainPanes) == [s1 EXCEPT !.bottomPane = mainPanes[1]]

\* two panes are left: cleanupDeadPanes takes the one that is not the TUI pane
AdoptSlot(s1, mainPanes) ==
  [s1 EXCEPT !.bottomPane = FirstNonTUI(mainPanes, s1.bottomPane)]

\* cleanupDeadPanes; cf names the tmux call that fails: 0 none,
\* 1 list-panes -a, 2 list-panes of the main window, 3 split-window
cleanupDeadPanes(s, cf) ==
  IF cf = 1 THEN s
  ELSE
    LET existingPanes == LivePanes(s.wins)
        rp == Prune(s.resourcePanes, existingPanes)
        ap == Prune(s.aiPanes, existingPanes)
        aai == IF s.activeAIChat \in DOMAIN s.aiPanes /\ s.activeAIChat \notin DOMAIN ap
               THEN NoID ELSE s.activeAIChat
        s1 == [s EXCEPT !.resourcePanes = rp, !.aiPanes = ap, !.activeAIChat = aai]
    IN IF s.bottomPane \in existingPanes THEN s1
       ELSE
         LET mainPanes == listPanesInWindow(s.wins, mainWindow, cf = 2)
         IN IF mainPanes.err THEN s1
            ELSE IF Len(mainPanes.panes) = 1
            THEN IF cf = 3 \/ tuiPane \notin existingPanes THEN s1
                 ELSE RecreateSlot(s1, s.nextPane)
            ELSE IF Len(mainPanes.panes) = 2
            THEN AdoptSlot(s1, mainPanes.panes)
            ELSE s1

\* updateStashTracking; sf: the list-panes call fails
updateStashTracking(s, sf) ==
  LET panes == listPanesInWindow(s.wins, stashWindow, sf)
  IN IF panes.err THEN s ELSE [s EXCEPT !.stashedPanes = panes.panes]

\* GetStashedResources: the bound resources other than the active one whose
\* pane is in the list updateStashTracking stored
GetStashedResources(s) ==
  {resID \in DOMAIN s.resourcePanes :
     resID # s.activeResource /\ s.resourcePanes[resID] \in Range(s.stashedPanes)}

\* GetPaneInfo: the location label of every bound resource
GetPaneInfo(s) ==
  [resID \in DOMAIN s.resourcePanes |->
     IF resID = s.activeResource THEN "active in main window"
     ELSE IF s.resourcePanes[resID] \in Range(s.stashedPanes) THEN "stashed"
     ELSE "unknown location"]

\* UpdateStatusBar: reconcile, then format and set the status line
\* (the formatting reads the maps and writes only tmux options)
UpdateStatusBar(s, cf) == cleanupDeadPanes(s, cf)

\* swap-pane succeeds when both panes exist; a pane swapped with itself stays
SwapOK(W, a, b) == a \in LivePanes(W) /\ b \in LivePanes(W)

\* variant: the binding records the pane now in the slot, not the new pane
Track_slot(s, m, id, newPane) == m @@ (id :> s.bottomPane)

\* m.resourcePanes[resourceID] = newPane, m.aiPanes[aiChatID] = newPane
Track(s, m, id, newPane) == m @@ (id :> newPane)

\* variant: the swap is issued but bottomPane is not moved to the resource pane
ActivateResource_stale(s1, resourceID, resourcePane) ==
  [s1 EXCEPT !.wins = SwapPane(s1.wins, s1.bottomPane, resourcePane),
             !.activeResource = resourceID,
             !.activeAIChat = NoID]

\* the swap and the bookkeeping after it in AttachResourceTerminal
ActivateResource(s1, resourceID, resourcePane) ==
  [s1 EXCEPT !.wins = SwapPane(s1.wins, s1.bottomPane, resourcePane),
             !.bottomPane = resourcePane,
             !.activeResource = resourceID,
             !.activeAIChat = NoID]

\* variant: the active resource is not cleared when a chat takes the slot
ActivateAIChat_keep(s1, aiChatID, newPane) ==
  [s1 EXCEPT !.wins = SwapPane(s1.wins, s1.bottomPane, newPane),
             !.bottomPane = newPane,
             !.activeAIChat = aiChatID]

\* the swap and the bookkeeping after it in AttachAIChat
ActivateAIChat(s1, aiChatID, newPane) ==
  [s1 EXCEPT !.wins = SwapPane(s1.wins, s1.bottomPane, newPane),
             !.bottomPane = newPane,
             !.activeAIChat = aiChatID,
             !.activeResource = NoID]

\* variant: the new pane is made the slot handle as soon as it is created
CreateResourcePane_eager(s, resourceID, newPane) ==
  [s EXCEPT !.wins = NewWindow(s.wins, newPane),
            !.nextPane = newPane + 1,
            !.bottomPane = newPane,
            !.resourcePanes = Track(s, s.resourcePanes, resourceID, newPane)]

\* the window AttachResourceTerminal creates for a resource it does not know
CreateResourcePane(s, resourceID, newPane) ==
  [s EXCEPT !.wins = NewWindow(s.wins, newPane),
            !.nextPane = newPane + 1,
            !.resourcePanes = Track(s, s.resourcePanes, resourceID, newPane)]

\* variant: the window is recorded before its pane id is known
OrphanWindow_bound(s, resourceID, newPane) == CreateResourcePane(s, resourceID, newPane)

\* new-window ran and display-message failed: AttachResourceTerminal returns
\* with the window left behind and nothing recorded for resourceID
OrphanWindow(s, resourceID, newPane) ==
  [s EXCEPT !.wins = NewWindow(s.wins, newPane),
            !.nextPane = newPane + 1]

\* AttachResourceTerminal; f names the tmux call that fails: 0 none,
\* 1 list-panes of the stash window, 2 new-window, 3 display-message,
\* 4 list-panes of the main window, 5 swap-pane
AttachResourceTerminal(s, resourceID, f, sf, cf) ==
  LET exists == resourceID \in DOMAIN s.resourcePanes
      stashPanes == listPanesInWindow(s.wins, stashWindow, f = 1)
      newPane == s.nextPane
      \* after the get-or-create block
      s1 == IF exists THEN s ELSE CreateResourcePane(s, resourceID, newPane)
      s1orphan == OrphanWindow(s, resourceID, newPane)
      resourcePane == s1.resourcePanes[resourceID]
      currentPanes == listPanesInWindow(s1.wins, mainWindow, f = 4)
      s2 == ActivateResource(s1, resourceID, resourcePane)
  IN IF ~exists /\ stashPanes.err THEN [err |-> TRUE, note |-> "list stash panes", s |-> s]
     ELSE IF ~exists /\ Len(stashPanes.panes) = 0
     THEN [err |-> TRUE, note |-> "stash window has no panes", s |-> s]
     ELSE IF ~exists /\ f = 2 THEN [err |-> TRUE, note |-> "create resource window", s |-> s]
     ELSE IF ~exists /\ f = 3 THEN [err |-> TRUE, note |-> "get pane ID", s |-> s1orphan]
     ELSE IF currentPanes.err THEN [err |-> TRUE, note |-> "list main window panes", s |-> s1]
     ELSE IF Len(currentPanes.panes) # 2
     THEN [err |-> TRUE, note |-> "expected 2 panes", s |-> s1]
     ELSE IF f = 5 \/ ~SwapOK(s1.wins, s1.bottomPane, resourcePane)
     THEN [err |-> TRUE, note |-> "swap pane failed", s |-> s1]
     ELSE [err |-> FALSE, note |-> "",
           s |-> UpdateStatusBar(updateStashTracking(s2, sf), cf)]

\* "ai-%d"
AIChatID(n) == "ai-" \o ToString(n)

\* variant: the loop starts at 0
NextAIChatNum_fromZero(ap) ==
  CHOOSE i \in 0..Cardinality(DOMAIN ap) :
    /\ AIChatID(i) \notin DOMAIN ap
    /\ \A j \in 0..(i - 1) : AIChatID(j) \in DOMAIN ap

\* the loop "for i := 1; ; i++" that stops at the first id not in aiPanes
NextAIChatNum(ap) ==
  CHOOSE i \in 1..(Cardinality(DOMAIN ap) + 1) :
    /\ AIChatID(i) \notin DOMAIN ap
    /\ \A j \in 1..(i - 1) : AIChatID(j) \in DOMAIN ap

\* AttachAIChat; f names the tmux call that fails: 0 none, 1 new-window,
\* 2 display-message, 3 list-panes of the main window, 4 swap-pane
AttachAIChat(s, f, sf, cf) ==
  LET aiChatID == AIChatID(NextAIChatNum(s.aiPanes))
      s0 == s
      newPane == s.nextPane
      s1orphan == [s0 EXCEPT !.wins = NewWindow(s.wins, newPane),
                             !.nextPane = newPane + 1]
      s1 == [s1orphan EXCEPT !.aiPanes = Track(s, s.aiPanes, aiChatID, newPane)]
      currentPanes == listPanesInWindow(s1.wins, mainWindow, f = 3)
      s2 == ActivateAIChat(s1, aiChatID, newPane)
  IN IF f = 1 THEN [err |-> TRUE, note |-> "create AI chat window", s |-> s0]
     ELSE IF f = 2 THEN [err |-> TRUE, note |-> "get pane ID", s |-> s1orphan]
     ELSE IF currentPanes.err THEN [err |-> TRUE, note |-> "list main window panes", s |-> s1]
     ELSE IF Len(currentPanes.panes) # 2
     THEN [err |-> TRUE, note |-> "expected 2 panes", s |-> s1]
     ELSE IF f = 4 \/ ~SwapOK(s1.wins, s1.bottomPane, newPane)
     THEN [err |-> TRUE, note |-> "swap pane failed", s |-> s1]
     ELSE [err |-> FALSE, note |-> "",
           s |-> UpdateStatusBar(updateStashTracking(s2, sf), cf)]

\* variant: closing one resource forgets every resource
Untrack_all(m, resourceID) == EmptyMap

\* delete(m.resourcePanes, resourceID)
Untrack(m, resourceID) == Restrict(m, DOMAIN m \ {resourceID})

\* variant: the placeholder is created but the active resource stays marked
ReplaceSlot_marked(killed, newBottomPane) ==
  [killed EXCEPT !.wins = SplitWindow(killed.wins, tuiPane, newBottomPane),
                 !.nextPane = newBottomPane + 1,
                 !.bottomPane = newBottomPane]

\* the placeholder CloseResourcePane puts in the place of the active pane it killed
ReplaceSlot(killed, newBottomPane) ==
  [killed EXCEPT !.wins = SplitWindow(killed.wins, tuiPane, newBottomPane),
                 !.nextPane = newBottomPane + 1,
                 !.bottomPane = newBottomPane,
                 !.activeResource = NoID]

\* CloseResourcePane; f names the tmux call that fails: 0 none, 1 kill-pane,
\* 2 split-window
CloseResourcePane(s, resourceID, f, sf, cf) ==
  LET exists == resourceID \in DOMAIN s.resourcePanes
      paneID == s.resourcePanes[resourceID]
      killed == [s EXCEPT !.wins = KillPane(s.wins, paneID)]
      newBottomPane == s.nextPane
      replaced == ReplaceSlot(killed, newBottomPane)
      s1 == IF resourceID = s.activeResource THEN replaced ELSE killed
      s2 == [s1 EXCEPT !.resourcePanes = Untrack(s.resourcePanes, resourceID)]
  IN IF ~exists THEN [err |-> TRUE, note |-> "has no pane", s |-> s]
     ELSE IF f = 1 \/ paneID \notin LivePanes(s.wins)
     THEN [err |-> TRUE,
           note |-> IF resourceID = s.activeResource
                    THEN "kill active pane" ELSE "kill stashed pane",
           s |-> s]
     ELSE IF resourceID = s.activeResource
             /\ (f = 2 \/ tuiPane \notin LivePanes(killed.wins))
     THEN [err |-> TRUE, note |-> "create replacement pane", s |-> killed]
     ELSE [err |-> FALSE,
           note |-> IF resourceID = s.activeResource THEN "active" ELSE "stashed",
           s |-> UpdateStatusBar(updateStashTracking(s2, sf), cf)]

\* ShowAIChooser once the user picked an entry in the popup.  type is "ai" or
\* "res".  The popup script swaps the picked pane with the pane at index 1 of
\* the main window; with fewer than two panes there the source target is empty
\* and tmux takes the active pane, the TUI pane that received the key (cur).
\* lf, sf, cf: the tmux calls that fail afterwards.
ShowAIChooser(s, type, id, cur, lf, sf, cf) ==
  LET pane_id == IF type = "ai" THEN s.aiPanes[id] ELSE s.resourcePanes[id]
      current_bottom == IF mainWindow \in DOMAIN s.wins /\ Len(s.wins[mainWindow]) >= 2
                        THEN s.wins[mainWindow][2] ELSE cur
      W1 == IF pane_id # current_bottom /\ SwapOK(s.wins, current_bottom, pane_id)
            THEN SwapPane(s.wins, current_bottom, pane_id)
            ELSE s.wins
      s1 == [s EXCEPT !.wins = W1,
                      !.activeAIChat = IF type = "ai" THEN id ELSE NoID,
                      !.activeResource = IF type = "res" THEN id ELSE NoID]
      panes == listPanesInWindow(W1, mainWindow, lf)
      s2 == IF ~panes.err /\ Len(panes.panes) >= 2
            THEN [s1 EXCEPT !.bottomPane = FirstNonTUI(panes.panes, s1.bottomPane)]
            ELSE s1
  IN UpdateStatusBar(updateStashTracking(s2, sf), cf)

\* ------------------------------------------- the Manager-backed WindowPool
\* WindowPool.GetOrCreate; setupErr: the setup function returns an error
PoolGetOrCreate(s, win, id, setupErr, f, sf, cf) ==
  LET resourceID == prefix \o id
      a == AttachResourceTerminal(s, resourceID, f, sf, cf)
      paneID == a.s.bottomPane
  IN IF id \in DOMAIN win
     THEN [err |-> FALSE, note |-> "exists", s |-> s, windows |-> win]
     ELSE IF maxWindows > 0 /\ Cardinality(DOMAIN win) >= maxWindows
     THEN [err |-> TRUE, note |-> "window pool limit reached", s |-> s, windows |-> win]
     ELSE IF a.err
     THEN [err |-> TRUE, note |-> "failed to create window", s |-> a.s, windows |-> win]
     ELSE [err |-> setupErr,
           note |-> IF setupErr THEN "setup function failed" ELSE "",
           s |-> a.s, windows |-> win @@ (id :> paneID)]

\* WindowPool.Switch
PoolSwitch(s, win, id, f, sf, cf) ==
  LET a == AttachResourceTerminal(s, prefix \o id, f, sf, cf)
  IN IF id \notin DOMAIN win
     THEN [err |-> TRUE, note |-> "does not exist", s |-> s, windows |-> win]
     ELSE [err |-> a.err, note |-> a.note, s |-> a.s, windows |-> win]

\* WindowPool.Close
PoolClose(s, win, id, f, sf, cf) ==
  LET c == CloseResourcePane(s, prefix \o id, f, sf, cf)
  IN IF id \notin DOMAIN win
     THEN [err |-> TRUE, note |-> "does not exist", s |-> s, windows |-> win]
     ELSE IF c.err
     THEN [err |-> TRUE, note |-> "failed to close window", s |-> c.s, windows |-> win]
     ELSE [err |-> FALSE, note |-> "", s |-> c.s,
           windows |-> Restrict(win, DOMAIN win \ {id})]

\* ------------------------------------------------ the LRU WindowPool
\* names callers hand to the LRU pool, and WindowPool.namePrefix
LRUNames == {"a", "b", "c"}
namePrefix == "d-"

\* The LRU pool's fields together with the tmux session its controller drives.
\* The name map is kept as its key set (windows) and the WindowID of each
\* entry (ids).
LRUState ==
  [windows |-> lruWindows, ids |-> lruWindowID, lru |-> lru, session |-> session,
   activeWin |-> activeWin]

Lowest(S) == CHOOSE i \in S : \A j \in S : i <= j

\* the windows of the session that carry a name
WindowsNamed(S, name) == {i \in DOMAIN S : S[i] = name}

\* new-window -t session: takes the lowest index no window has
FreeIndex(S) == Lowest((0..(MaxIndex + 1)) \ DOMAIN S)

\* TmuxController.CreateWindow: new-window -n name selects the window it makes
CreateWindow(p, name) ==
  [p EXCEPT !.session = p.session @@ (FreeIndex(p.session) :> name),
            !.activeWin = FreeIndex(p.session)]

\* TmuxController.SwitchToWindow: select-window -t session:name
SwitchToWindow(p, name, fail) ==
  IF fail \/ WindowsNamed(p.session, name) = {}
  THEN [err |-> TRUE, p |-> p]
  ELSE [err |-> FALSE,
        p |-> [p EXCEPT !.activeWin = Lowest(WindowsNamed(p.session, name))]]

\* TmuxController.CloseWindow: GetWindowIndex takes the first window listed
\* under the name, kill-window removes it; when it was the selected window
\* the session selects another one (the user may select any other afterwards)
CloseWindow(p, name, fail) ==
  IF fail \/ WindowsNamed(p.session, name) = {}
  THEN [err |-> TRUE, p |-> p]
  ELSE LET index == Lowest(WindowsNamed(p.session, name))
           rest == DOMAIN p.session \ {index}
       IN [err |-> FALSE,
           p |-> [p EXCEPT !.session = Restrict(p.session, rest),
                           !.activeWin = IF p.activeWin # index THEN p.activeWin
                                         ELSE Lowest(rest)]]

\* w.Active of the window entry ListWindows returns for a name
ActiveName(p) == p.session[p.activeWin]

\* evictLRU's choice: the back of the list, or the one before it when the
\* back is the active window and ListWindows told so (0: there is none)
Victim(p, lf) ==
  LET n == Len(p.lru)
  IN IF ~lf /\ ActiveName(p) = p.lru[n]
     THEN (IF n > 1 THEN n - 1 ELSE 0)
     ELSE n

\* variant: the element leaves the list and the map keeps the entry
Forget_listOnly(p, name) ==
  [p EXCEPT !.lru = SelectSeq(p.lru, LAMBDA e : e # name)]

\* p.lru.Remove(elem); delete(p.windows, name)
Forget(p, name) ==
  [p EXCEPT !.lru = SelectSeq(p.lru, LAMBDA e : e # name),
            !.windows = p.windows \ {name},
            !.ids = Restrict(p.ids, DOMAIN p.ids \ {name})]

\* WindowPool.evictLRU; lf: ListWindows fails, cf: CloseWindow fails
evictLRU(p, lf, cf) ==
  IF Len(p.lru) = 0 THEN [err |-> TRUE, note |-> "no windows to evict", p |-> p]
  ELSE LET v == Victim(p, lf)
       IN IF v = 0 THEN [err |-> TRUE, note |-> "cannot evict only window", p |-> p]
          ELSE LET name == p.lru[v]
                   c == CloseWindow(p, name, cf)
               IN IF c.err THEN [err |-> TRUE, note |-> "failed to close window", p |-> p]
                  ELSE [err |-> FALSE, note |-> "", p |-> Forget(c.p, name)]

\* WindowPool.touch: MoveToFront (the metadata write is not fatal)
touch_stay(p, name) == p

touch(p, name) ==
  [p EXCEPT !.lru = <<name>> \o SelectSeq(p.lru, LAMBDA e : e # name)]

\* after setupFunc: a failed setup leaves the window untracked,
\* else entry.lruElement = p.lru.PushFront(entry); p.windows[fullName] = entry
TrackWindow(p, name, windowID, setupErr) ==
  IF setupErr THEN p
  ELSE [p EXCEPT !.lru = <<name>> \o p.lru,
                 !.windows = p.windows \cup {name},
                 !.ids = p.ids @@ (name :> windowID)]

\* variant: a full pool takes the new window without evicting
NeedsEviction_never(p, max) == FALSE

\* if p.maxWindows > 0 && len(p.windows) >= p.maxWindows
NeedsEviction(p, max) == max > 0 /\ Cardinality(p.windows) >= max

\* LRU WindowPool.GetOrCreate.  f names the controller call that fails:
\* 0 none, 1 SwitchToWindow, 2 CreateWindow, 3 the CloseWindow after a failed
\* setup, 4 the CloseWindow of evictLRU (each of them ends the call);
\* lf: ListWindows fails; setupErr: setupFunc returns an error
LRUGetOrCreate(p, max, name, setupErr, f, lf) ==
  LET fullName == namePrefix \o name
      touched == touch(p, fullName)
      sw == SwitchToWindow(touched, fullName, f = 1)
      ev == IF NeedsEviction(p, max) THEN evictLRU(p, lf, f = 4)
            ELSE [err |-> FALSE, note |-> "", p |-> p]
      windowID == FreeIndex(ev.p.session)
      made == CreateWindow(ev.p, fullName)
      cleaned == CloseWindow(made, fullName, f = 3).p
      tracked == TrackWindow(made, fullName, windowID, setupErr)
      sn == SwitchToWindow(tracked, fullName, f = 1)
  IN IF fullName \in p.windows
     THEN [err |-> sw.err, note |-> IF sw.err THEN "failed to switch to window" ELSE "exists",
           ret |-> IF sw.err THEN 0 ELSE p.ids[fullName],
           p |-> sw.p]
     ELSE IF ev.err THEN [err |-> TRUE, note |-> ev.note, ret |-> 0, p |-> ev.p]
     ELSE IF f = 2
     THEN [err |-> TRUE, note |-> "failed to create window", ret |-> 0, p |-> ev.p]
     ELSE IF setupErr
     THEN [err |-> TRUE,
           note |-> IF f = 3 THEN "setup failed, window left" ELSE "setup failed",
           ret |-> 0,
           p |-> TrackWindow(cleaned, fullName, windowID, setupErr)]
     ELSE [err |-> sn.err,
           note |-> IF sn.err THEN "failed to switch to new window"
                    ELSE IF NeedsEviction(p, max) THEN "evicted" ELSE "created",
           ret |-> IF sn.err THEN 0 ELSE windowID,
           p |-> sn.p]

\* LRU WindowPool.Close; cf: CloseWindow fails
LRUClose(p, name, cf) ==
  LET fullName == namePrefix \o name
      c == CloseWindow(p, fullName, cf)
  IN IF fullName \notin p.windows
     THEN [err |-> TRUE, note |-> "window not in pool", p |-> p]
     ELSE IF c.err THEN [err |-> TRUE, note |-> "failed to close window", p |-> p]
     ELSE [err |-> FALSE, note |-> "", p |-> Forget(c.p, fullName)]

\* ------------------------------------------------------------- actions
\* the fields of a State record become the next state; the pool map is separate
Becomes(s) ==
  /\ s.nextPane <= MaxPanes + 1
  /\ wins' = s.wins
  /\ nextPane' = s.nextPane
  /\ bottomPane' = s.bottomPane
  /\ resourcePanes' = s.resourcePanes
  /\ aiPanes' = s.aiPanes
  /\ activeResource' = s.activeResource
  /\ activeAIChat' = s.activeAIChat
  /\ stashedPanes' = s.stashedPanes

\* Environment: the hidden stash window is left alone.  Nobody kills its shell
\* and listing it does not fail, so updateStashTracking always sees its panes.
StashListFails == {FALSE}
Killable(W) == LivePanes(W) \ ({tuiPane} \cup Range(W[stashWindow]))

\* the tmux calls after the last error return of a handler are reached only when
\* none of the calls before them failed (f = 0)
AfterSwap(f, outcomes) == IF f = 0 THEN outcomes ELSE {CHOOSE o \in outcomes : TRUE}

DoAttachResourceTerminal ==
  \E resourceID \in ResourceIDs, f \in 0..5 :
   \E sf \in AfterSwap(f, StashListFails), cf \in AfterSwap(f, 0..3) :
    LET r == AttachResourceTerminal(State, resourceID, f, sf, cf)
    IN /\ Becomes(r.s)
       /\ UNCHANGED windows
       /\ ManagerRuns
       /\ Returned("AttachResourceTerminal", resourceID, r.err, r.note)

DoAttachAIChat ==
  \E f \in 0..4 :
   \E sf \in AfterSwap(f, StashListFails), cf \in AfterSwap(f, 0..3) :
    LET r == AttachAIChat(State, f, sf, cf)
    IN /\ Becomes(r.s)
       /\ UNCHANGED windows
       /\ ManagerRuns
       /\ Returned("AttachAIChat", NoID, r.err, r.note)

DoCloseResourcePane ==
  \E resourceID \in ResourceIDs, f \in 0..2 :
   \E sf \in AfterSwap(f, StashListFails), cf \in AfterSwap(f, 0..3) :
    LET r == CloseResourcePane(State, resourceID, f, sf, cf)
    IN /\ Becomes(r.s)
       /\ UNCHANGED windows
       /\ ManagerRuns
       /\ Returned("CloseResourcePane", resourceID, r.err, r.note)

\* what an empty source target of the popup's swap-pane resolves to: tmux
\* finds no pane for it and rejects the command
ActivePane == {NoPane}

\* the popup was closed with a selection (without one nothing happens)
DoShowAIChooser ==
  \E type \in {"ai", "res"}, lf \in BOOLEAN, sf \in StashListFails, cf \in 0..3 :
    \E id \in (IF type = "ai" THEN DOMAIN aiPanes ELSE DOMAIN resourcePanes) :
      \E cur \in ActivePane :
        /\ Becomes(ShowAIChooser(State, type, id, cur, lf, sf, cf))
        /\ UNCHANGED windows
        /\ ManagerRuns
        /\ Returned("ShowAIChooser", id, FALSE, type)

\* a pass that got its enumeration and whose repair calls did not fail
PassDone(note) == note \notin {"no enumeration", "repair failed"}

\* what the observer notes of a reconciliation pass: a tmux call of the pass
\* failed, or the pass came right after a pass none of whose calls failed,
\* or else what the pass did
PassNote(cf) ==
  LET slotDead == bottomPane \notin LivePanes(wins)
      n == Len(wins[mainWindow])
  IN IF cf = 1 THEN "no enumeration"
     ELSE IF slotDead /\ (cf = 2 \/ (cf = 3 /\ n = 1)) THEN "repair failed"
     ELSE IF last.op = "UpdateStatusBar" /\ PassDone(last.note) THEN "again"
     ELSE IF slotDead /\ n = 1 THEN "recreated"
     ELSE IF slotDead /\ n = 2 THEN "adopted"
     ELSE IF resourcePanes' # resourcePanes \/ aiPanes' # aiPanes THEN "removed"
     ELSE ""

\* the two-second tick of the TUI, and every other caller of UpdateStatusBar
DoUpdateStatusBar ==
  \E cf \in 0..3 :
    /\ Becomes(UpdateStatusBar(State, cf))
    /\ UNCHANGED windows
    /\ ManagerRuns
    /\ Returned("UpdateStatusBar", NoID, FALSE, PassNote(cf))

DoPoolGetOrCreate ==
  \E id \in PoolIDs, f \in 0..5 :
   \E setupErr \in AfterSwap(f, BOOLEAN), sf \in AfterSwap(f, StashListFails), cf \in AfterSwap(f, 0..3) :
    LET r == PoolGetOrCreate(State, windows, id, setupErr, f, sf, cf)
    IN /\ Becomes(r.s)
       /\ windows' = r.windows
       /\ ManagerRuns
       /\ Returned("Pool.GetOrCreate", id, r.err, r.note)

DoPoolSwitch ==
  \E id \in PoolIDs, f \in 0..5 :
   \E sf \in AfterSwap(f, StashListFails), cf \in AfterSwap(f, 0..3) :
    LET r == PoolSwitch(State, windows, id, f, sf, cf)
    IN /\ Becomes(r.s)
       /\ windows' = r.windows
       /\ ManagerRuns
       /\ Returned("Pool.Switch", id, r.err, r.note)

DoPoolClose ==
  \E id \in PoolIDs, f \in 0..2 :
   \E sf \in AfterSwap(f, StashListFails), cf \in AfterSwap(f, 0..3) :
    LET r == PoolClose(State, windows, id, f, sf, cf)
    IN /\ Becomes(r.s)
       /\ windows' = r.windows
       /\ ManagerRuns
       /\ Returned("Pool.Close", id, r.err, r.note)

\* a step of a run built around the LRU pool
LRURuns ==
  /\ impl = "lru"
  /\ UNCHANGED <<impl, lruMaxWindows, wins, nextPane, bottomPane, resourcePanes,
                 aiPanes, activeResource, activeAIChat, stashedPanes, windows,
                 sideVars>>

LRUBecomes(p) ==
  /\ \A i \in DOMAIN p.session : i <= MaxIndex
  /\ lruWindows' = p.windows
  /\ lruWindowID' = p.ids
  /\ lru' = p.lru
  /\ session' = p.session
  /\ activeWin' = p.activeWin

DoLRUGetOrCreate ==
  /\ impl = "lru"
  /\ \E name \in LRUNames, setupErr \in BOOLEAN, f \in 0..4, lf \in BOOLEAN :
    LET r == LRUGetOrCreate(LRUState, lruMaxWindows, name, setupErr, f, lf)
    IN /\ LRUBecomes(r.p)
       /\ LRURuns
       /\ ReturnedWith("LRU.GetOrCreate", namePrefix \o name, r.err, r.note, r.ret)

DoLRUClose ==
  /\ impl = "lru"
  /\ \E name \in LRUNames, cf \in BOOLEAN :
    LET r == LRUClose(LRUState, name, cf)
    IN /\ LRUBecomes(r.p)
       /\ LRURuns
       /\ Returned("LRU.Close", namePrefix \o name, r.err, r.note)

\* the user selects another window of the session
SelectWindow ==
  /\ impl = "lru"
  /\ \E i \in DOMAIN session \ {activeWin} :
    /\ activeWin' = i
    /\ UNCHANGED <<lruWindows, lruWindowID, lru, session>>
    /\ LRURuns
    /\ Returned("SelectWindow", NoID, FALSE, "")

NextLRU ==
  \/ DoLRUGetOrCreate
  \/ DoLRUClose
  \/ SelectWindow

\* the user kills a window of the session other than its first, "main", so
\* the session lives on (kill-window, or the shell in it exits); a selected
\* window hands the selection on
ExternalKillWindow ==
  /\ impl = "lru"
  /\ \E i \in DOMAIN session :
    LET rest == DOMAIN session \ {i}
    IN /\ session[i] # "main"
       /\ session' = Restrict(session, rest)
       /\ activeWin' = IF activeWin # i THEN activeWin ELSE Lowest(rest)
       /\ UNCHANGED <<lruWindows, lruWindowID, lru>>
       /\ LRURuns
       /\ Returned("ExternalKillWindow", NoID, FALSE, "")

\* a Close(name) in which tmux itself does not fail
CloseCall(name) ==
  LET r == LRUClose(LRUState, name, FALSE)
  IN /\ impl = "lru"
     /\ LRUBecomes(r.p)
     /\ LRURuns
     /\ Returned("LRU.Close", namePrefix \o name, r.err, r.note)

\* a GetOrCreate(name) in which neither tmux nor the setup function fails
GetOrCreateCall(name) ==
  LET r == LRUGetOrCreate(LRUState, lruMaxWindows, name, FALSE, 0, FALSE)
  IN /\ impl = "lru"
     /\ LRUBecomes(r.p)
     /\ LRURuns
     /\ ReturnedWith("LRU.GetOrCreate", namePrefix \o name, r.err, r.note, r.ret)

\* the LRU pool in a session whose windows the user also kills; tmux itself
\* does not fail in these runs
NextLRUDead ==
  \/ \E name \in LRUNames : GetOrCreateCall(name)
  \/ \E name \in LRUNames : CloseCall(name)
  \/ SelectWindow
  \/ ExternalKillWindow

\* the pool's caller keeps closing: a Close of a name that would change
\* something is made sooner or later
FairCalls ==
  \A name \in LRUNames : WF_vars(CloseCall(name))

\* ---------------------------------------------- events outside the program
\* a pane goes away: the user kills it, or the program running in it exits
ExternalKill ==
  \E p \in Killable(wins) :
    /\ wins' = KillPane(wins, p)
    /\ UNCHANGED <<nextPane, bottomPane, resourcePanes, aiPanes, activeResource,
                   activeAIChat, stashedPanes, windows>>
    /\ ManagerRuns
    /\ Returned("ExternalKill", NoID, FALSE, "")

\* the user splits a pane of the main window
ExternalSplit ==
  \E t \in (IF mainWindow \in DOMAIN wins THEN Range(wins[mainWindow]) ELSE {}) :
    /\ nextPane <= MaxPanes
    /\ wins' = SplitWindow(wins, t, nextPane)
    /\ nextPane' = nextPane + 1
    /\ UNCHANGED <<bottomPane, resourcePanes, aiPanes, activeResource,
                   activeAIChat, stashedPanes, windows>>
    /\ ManagerRuns
    /\ Returned("ExternalSplit", NoID, FALSE, "")

\* the user moves panes: swap-pane between a pane of the main window and a
\* pane of another window
ExternalSwap ==
  \E p \in Range(wins[mainWindow]) \ {tuiPane} :
    \E q \in Killable(wins) \ Range(wins[mainWindow]) :
      /\ wins' = SwapPane(wins, p, q)
      /\ UNCHANGED <<nextPane, bottomPane, resourcePanes, aiPanes, activeResource,
                     activeAIChat, stashedPanes, windows>>
      /\ ManagerRuns
      /\ Returned("ExternalSwap", NoID, FALSE, "")

\* ------------------------------------------------- the TmuxController
\* The session has one window; ListPanes and paneExists both list its panes.
Ctl == [panes |-> cpanes, next |-> cnext, vars |-> sessionVars, calls |-> workerCalls]

\* GetPaneID; fails: show-options or list-panes returns an error, which
\* getSessionVar's caller and paneExists treat as "not found"
GetPaneID(c, role, fails) ==
  IF fails \/ c.vars[role] = NoPane \/ c.vars[role] \notin Range(c.panes)
  THEN [id |-> NoPane, ok |-> FALSE]
  ELSE [id |-> c.vars[role], ok |-> TRUE]

\* getAllPaneIDs as Init sees it: every role with the result of its lookup
getAllPaneIDs(c, lookupFails) ==
  [role \in Roles |-> GetPaneID(c, role, role \in lookupFails)]

\* split-window -t t: the new pane takes the index after t
SplitAfter(panes, t, k) ==
  LET i == IndexOf(panes, t)
  IN SubSeq(panes, 1, i) \o <<k>> \o SubSeq(panes, i + 1, Len(panes))

\* registerPanes; setFails: the roles whose set-option fails.  One goroutine
\* per variable runs setSessionVar; after wg.Wait any error is returned, and
\* otherwise one goroutine per pane sets the title and respawns the pane.
registerPanes(c, panes, setFails) ==
  LET ids == [role \in Roles |-> panes[IndexOf(RoleList, role)]]
      stored == [c EXCEPT !.vars = [role \in Roles |->
                                      IF role \in setFails THEN c.vars[role] ELSE ids[role]],
                          !.calls = c.calls \cup {"set-option"}]
  IN IF Len(panes) < 3 THEN [err |-> TRUE, note |-> "need at least 3 panes", c |-> c]
     ELSE IF setFails # {} THEN [err |-> TRUE, note |-> "failed to set", c |-> stored]
     ELSE [err |-> FALSE, note |-> "registered",
           c |-> [stored EXCEPT !.calls = stored.calls \cup {"select-pane -T", "respawn-pane"}]]

\* createLayout; f names the tmux call that fails: 3 the first split-window,
\* 4 the list-panes after it, 5 the second split-window, 6 the list-panes after it
createLayout(c, basePaneID, f, setFails) ==
  LET c1 == [c EXCEPT !.panes = SplitAfter(c.panes, basePaneID, c.next),
                      !.next = c.next + 1]
      bottomPaneID == c1.panes[2]
      c2 == [c1 EXCEPT !.panes = SplitAfter(c1.panes, bottomPaneID, c1.next),
                       !.next = c1.next + 1]
  IN IF f = 3 THEN [err |-> TRUE, note |-> "failed to split top/bottom", c |-> c]
     ELSE IF f = 4 THEN [err |-> TRUE, note |-> "failed to list panes after first split", c |-> c1]
     ELSE IF f = 5 THEN [err |-> TRUE, note |-> "failed to split logs/side", c |-> c1]
     ELSE IF f = 6 THEN [err |-> TRUE, note |-> "failed to list panes after second split", c |-> c2]
     ELSE registerPanes(c2, c2.panes, setFails)

\* TmuxController.Init; f names the tmux call that fails: 0 none, 1 the
\* new-session of EnsureSession, 2 the first list-panes, 3..6 the calls of
\* createLayout, 7 the list-panes after the kills; kf: the kill-pane calls fail
Init_controller(c, f, kf, lookupFails, setFails) ==
  LET found == getAllPaneIDs(c, lookupFails)
      c0 == [c EXCEPT !.calls = c.calls \cup LookupCalls]
      killed == IF kf THEN c0 ELSE [c0 EXCEPT !.panes = <<c0.panes[1]>>]
  IN IF f = 1 THEN [err |-> TRUE, note |-> "failed to create session", c |-> c]
     ELSE IF \A role \in Roles : found[role].ok
     THEN [err |-> FALSE, note |-> "all panes valid", c |-> c0]
     ELSE IF f = 2 THEN [err |-> TRUE, note |-> "failed to list panes", c |-> c0]
     ELSE IF Len(c0.panes) = 1 THEN createLayout(c0, c0.panes[1], f, setFails)
     ELSE IF Len(c0.panes) >= 3 THEN registerPanes(c0, c0.panes, setFails)
     ELSE IF f = 7 THEN [err |-> TRUE, note |-> "failed to initialize layout", c |-> killed]
     ELSE createLayout(killed, killed.panes[1], f, setFails)

\* swap-pane -s a -t b in the session's one window: the two panes trade places
SwapInWindow(panes, a, b) ==
  [i \in 1..Len(panes) |-> IF panes[i] = a THEN b ELSE IF panes[i] = b THEN a ELSE panes[i]]

\* TmuxController.SwapPanes; f names the tmux call that fails: 0 none, 1 the
\* lookup of role1, 2 the lookup of role2, 3 swap-pane; setFails: which of the
\* two set-option calls fail, whose errors SwapPanes does not read
SwapPanes(c, role1, role2, f, setFails) ==
  LET p1 == GetPaneID(c, role1, f = 1)
      p2 == GetPaneID(c, role2, f = 2)
      c0 == [c EXCEPT !.calls = c.calls \cup LookupCalls]
      c1 == [c0 EXCEPT !.panes = SwapInWindow(c0.panes, p1.id, p2.id),
                       !.calls = c0.calls \cup {"swap-pane", "set-option"}]
      c2 == IF 1 \in setFails THEN c1 ELSE [c1 EXCEPT !.vars[role1] = p2.id]
      c3 == IF 2 \in setFails THEN c2 ELSE [c2 EXCEPT !.vars[role2] = p1.id]
  IN IF ~p1.ok THEN [err |-> TRUE, note |-> "pane 1 not found", c |-> c0]
     ELSE IF ~p2.ok THEN [err |-> TRUE, note |-> "pane 2 not found", c |-> c0]
     ELSE IF f = 3 THEN [err |-> TRUE, note |-> "failed to swap panes",
                         c |-> [c0 EXCEPT !.calls = c0.calls \cup {"swap-pane"}]]
     ELSE [err |-> FALSE, note |-> "swapped", c |-> c3]

\* a step of a run built around the TmuxController
ControllerRuns ==
  /\ impl = "controller"
  /\ UNCHANGED <<wins, nextPane, bottomPane, resourcePanes, aiPanes, activeResource,
                 activeAIChat, stashedPanes, windows, impl, lruVars, callers, ctxVars, moreVars>>

CtlBecomes(c) ==
  /\ c.next <= MaxCtlPanes + 1
  /\ cpanes' = c.panes
  /\ cnext' = c.next
  /\ sessionVars' = c.vars
  /\ workerCalls' = c.calls

\* kill-pane runs only on a window of two panes, set-option only when no
\* call before it failed, and the lookups only after EnsureSession
KillFails == IF Len(cpanes) = 2 THEN BOOLEAN ELSE {FALSE}
SetFails(f) == IF f = 0 THEN SUBSET Roles ELSE {{}}
LookupFails(f) == IF f = 1 THEN {{}} ELSE SUBSET Roles

DoInit ==
  \E f \in 0..7, kf \in KillFails :
   \E lookupFails \in LookupFails(f), setFails \in SetFails(f) :
    LET r == Init_controller(Ctl, f, kf, lookupFails, setFails)
    IN /\ impl = "controller"
       /\ CtlBecomes(r.c)
       /\ UNCHANGED fan
       /\ ControllerRuns
       /\ Returned("Init", NoID, r.err, r.note)

\* the user closes a pane of the window, not the last one
CtlKill ==
  \E p \in Range(cpanes) :
    /\ impl = "controller"
    /\ Len(cpanes) > 1
    /\ cpanes' = WithoutPane(cpanes, p)
    /\ UNCHANGED <<cnext, sessionVars, workerCalls, fan>>
    /\ ControllerRuns
    /\ Returned("CtlKill", NoID, FALSE, "")

\* the user splits a pane of the window
CtlSplit ==
  \E t \in Range(cpanes) :
    /\ impl = "controller"
    /\ cnext <= MaxCtlPanes
    /\ cpanes' = SplitAfter(cpanes, t, cnext)
    /\ cnext' = cnext + 1
    /\ UNCHANGED <<sessionVars, workerCalls, fan>>
    /\ ControllerRuns
    /\ Returned("CtlSplit", NoID, FALSE, "")

\* the two set-option calls run only when every call before them succeeded
SwapSetFails(f) == IF f = 0 THEN SUBSET {1, 2} ELSE {{}}

DoSwapPanes ==
  \E role1 \in Roles, role2 \in Roles, f \in 0..3 :
   \E setFails \in SwapSetFails(f) :
    LET r == SwapPanes(Ctl, role1, role2, f, setFails)
    IN /\ impl = "controller"
       /\ CtlBecomes(r.c)
       /\ UNCHANGED fan
       /\ ControllerRuns
       /\ Returned("SwapPanes", role1, r.err, r.note)

\* Init and SwapPanes on one session
NextSwap ==
  \/ DoInit
  \/ DoSwapPanes

\* getAllPaneIDs goroutine by goroutine.  results is the channel of capacity 3.
ResultsCap == 3

\* variant: the collector fills top, left, right in the order of arrival
Deliver_inOrder(got, n, res) ==
  [got EXCEPT ![RoleList[n + 1]] = [id |-> res.id, ok |-> res.ok]]

\* "switch res.role": the n-th result received goes to the role it names
Deliver(got, n, res) ==
  [got EXCEPT ![res.role] = [id |-> res.id, ok |-> res.ok]]

\* make(chan paneIDResult, 3) and the three go statements
GoGetAllPaneIDs ==
  /\ impl = "controller"
  /\ fan.at \in {"idle", "returned"}
  /\ fan' = [FanIdle EXCEPT !.at = "collect",
                            !.workers = [r \in Roles |-> [at |-> "lookup", id |-> NoPane,
                                                          ok |-> FALSE]]]
  /\ UNCHANGED <<cpanes, cnext, sessionVars, workerCalls>>
  /\ ControllerRuns
  /\ Returned("getAllPaneIDs", NoID, FALSE, "")

\* a worker's c.GetPaneID(r)
WorkerLookup(r) ==
  \E fails \in BOOLEAN :
    LET res == GetPaneID(Ctl, r, fails)
    IN /\ impl = "controller"
       /\ fan.workers[r].at = "lookup"
       /\ fan' = [fan EXCEPT !.workers[r] = [at |-> "send", id |-> res.id, ok |-> res.ok]]
       /\ workerCalls' = workerCalls \cup LookupCalls
       /\ UNCHANGED <<cpanes, cnext, sessionVars>>
       /\ ControllerRuns
       /\ Returned("getAllPaneIDs", NoID, FALSE, "")

\* a worker's "results <- paneIDResult{...}": blocks while the channel is full
WorkerSend(r) ==
  /\ impl = "controller"
  /\ fan.workers[r].at = "send"
  /\ Len(fan.results) < ResultsCap
  /\ fan' = [fan EXCEPT !.workers[r].at = "done",
                        !.results = Append(fan.results,
                                           [role |-> r, id |-> fan.workers[r].id,
                                            ok |-> fan.workers[r].ok])]
  /\ UNCHANGED <<cpanes, cnext, sessionVars, workerCalls>>
  /\ ControllerRuns
  /\ Returned("getAllPaneIDs", NoID, FALSE, "")

\* one round of "for i := 0; i < 3; i++ { res := <-results ... }"
Receive ==
  /\ impl = "controller"
  /\ fan.at = "collect"
  /\ fan.n < 3
  /\ fan.results # <<>>
  /\ fan' = [fan EXCEPT !.results = Tail(fan.results),
                        !.got = Deliver(fan.got, fan.n, Head(fan.results)),
                        !.n = fan.n + 1,
                        !.order = Append(fan.order, Head(fan.results).role)]
  /\ UNCHANGED <<cpanes, cnext, sessionVars, workerCalls>>
  /\ ControllerRuns
  /\ Returned("getAllPaneIDs", NoID, FALSE, "")

\* the return after the third round
ReturnAll ==
  /\ impl = "controller"
  /\ fan.at = "collect"
  /\ fan.n = 3
  /\ fan' = [fan EXCEPT !.at = "returned"]
  /\ UNCHANGED <<cpanes, cnext, sessionVars, workerCalls>>
  /\ ControllerRuns
  /\ Returned("getAllPaneIDs", NoID, FALSE, "")

NextFanOut ==
  \/ GoGetAllPaneIDs
  \/ \E r \in Roles : WorkerLookup(r)
  \/ \E r \in Roles : WorkerSend(r)
  \/ Receive
  \/ ReturnAll
  \/ CtlKill

\* the Go scheduler runs every goroutine that can take a step
FairFanOut ==
  /\ \A r \in Roles : WF_vars(WorkerLookup(r)) /\ WF_vars(WorkerSend(r))
  /\ WF_vars(Receive)
  /\ WF_vars(ReturnAll)

\* ------------------------------------------------- the ContextManager
\* a field of a ContextUpdate that is nil
Nil == "<nil>"
Updates == [Cluster : {Nil, "c1"}, Namespace : {Nil, "n1"}]

\* the "if update.X != nil" assignments of Set
ApplyUpdate(c, update) ==
  [Cluster |-> IF update.Cluster # Nil THEN update.Cluster ELSE c.Cluster,
   Namespace |-> IF update.Namespace # Nil THEN update.Namespace ELSE c.Namespace]

\* variant: the send waits for room instead of giving up
Offer_always(ch, c) == [ch EXCEPT !.buf = Append(ch.buf, c)]

\* "select { case ch <- m.ctx: default: }": the context goes into the buffer
\* when there is room and is dropped for this channel when there is none
Offer(ch, c) ==
  IF Len(ch.buf) < ch.cap THEN [ch EXCEPT !.buf = Append(ch.buf, c)] ELSE ch

\* "for _, ch := range m.subscribers"
RECURSIVE Notify(_, _, _)
Notify(cs, subs, c) ==
  IF subs = <<>> THEN cs
  ELSE Notify([cs EXCEPT ![Head(subs)] = Offer(cs[Head(subs)], c)], Tail(subs), c)

\* ContextManager.Set
Set(c, subs, cs, update) ==
  LET new == ApplyUpdate(c, update)
  IN [ctx |-> new, chans |-> Notify(cs, subs, new)]

\* a step of a run built around the ContextManager
ContextRuns ==
  /\ impl = "context"
  /\ UNCHANGED <<wins, nextPane, bottomPane, resourcePanes, aiPanes, activeResource,
                 activeAIChat, stashedPanes, windows, impl, lruVars, callers, ctlVars, moreVars>>

DoSet ==
  \E update \in Updates :
    LET r == Set(cmCtx, subscribers, chans, update)
    IN /\ impl = "context"
       /\ cmCtx' = r.ctx
       /\ chans' = r.chans
       /\ UNCHANGED subscribers
       /\ ContextRuns
       /\ Returned("Set", NoID, FALSE,
                   IF \E i \in 1..Len(subscribers) :
                        Len(chans[subscribers[i]].buf) = chans[subscribers[i]].cap
                   THEN "skipped" ELSE "delivered")

\* ContextManager.Subscribe
DoSubscribe ==
  \E ch \in Chans :
    /\ impl = "context"
    /\ Len(subscribers) < MaxSubs
    /\ subscribers' = Append(subscribers, ch)
    /\ UNCHANGED <<cmCtx, chans>>
    /\ ContextRuns
    /\ Returned("Subscribe", NoID, FALSE, "")

\* the owner of a channel takes the oldest context off it
ChanReceive ==
  \E ch \in Chans :
    /\ impl = "context"
    /\ chans[ch].buf # <<>>
    /\ chans' = [chans EXCEPT ![ch].buf = Tail(chans[ch].buf)]
    /\ UNCHANGED <<cmCtx, subscribers>>
    /\ ContextRuns
    /\ Returned("ChanReceive", NoID, FALSE, "")

NextContext ==
  \/ DoSet
  \/ DoSubscribe
  \/ ChanReceive

NextController ==
  \/ DoInit
  \/ CtlKill
  \/ CtlSplit

\* Two goroutines call AttachResourceTerminal on one Manager.  The Manager has
\* no lock, so the steps of the two calls interleave; a call is cut where it
\* has issued swap-pane and not yet written bottomPane and the active markers.
\* Every tmux call succeeds here.
\* First half: the get-or-create block, the check of the main window, swap-pane.
BeginAttach ==
  \E c \in Callers, resourceID \in ResourceIDs :
    LET s == State
        exists == resourceID \in DOMAIN s.resourcePanes
        s1 == IF exists THEN s ELSE CreateResourcePane(s, resourceID, s.nextPane)
        resourcePane == s1.resourcePanes[resourceID]
        currentPanes == listPanesInWindow(s1.wins, mainWindow, FALSE)
        refused == Len(currentPanes.panes) # 2 \/ ~SwapOK(s1.wins, s1.bottomPane, resourcePane)
    IN /\ impl = "manager"
       /\ callers[c].at = "idle"
       /\ IF refused
          THEN /\ Becomes(s1)
               /\ UNCHANGED callers
               /\ Returned("AttachResourceTerminal", resourceID, TRUE, "refused")
          ELSE /\ Becomes([s1 EXCEPT !.wins = SwapPane(s1.wins, s1.bottomPane, resourcePane)])
               /\ callers' = [callers EXCEPT ![c] = [at |-> "swapped", id |-> resourceID,
                                                     pane |-> resourcePane]]
               /\ UNCHANGED <<last, hist, watch, detail>>
       /\ UNCHANGED <<windows, impl, lruVars, ctlVars, ctxVars, moreVars>>

\* Second half: bottomPane and the active markers, then the stash list and the
\* status bar with its reconciliation.
FinishAttach ==
  \E c \in Callers :
    LET s2 == [State EXCEPT !.bottomPane = callers[c].pane,
                           !.activeResource = callers[c].id,
                           !.activeAIChat = NoID]
    IN /\ impl = "manager"
       /\ callers[c].at = "swapped"
       /\ Becomes(UpdateStatusBar(updateStashTracking(s2, FALSE), 0))
       /\ callers' = [callers EXCEPT ![c] = Idle]
       /\ Returned("AttachResourceTerminal", callers[c].id, FALSE, "")
       /\ UNCHANGED <<windows, impl, lruVars, ctlVars, ctxVars, moreVars>>

NextConcurrent ==
  \/ BeginAttach
  \/ FinishAttach

\* The Manager when every tmux call succeeds and nobody touches the panes
\* from outside: activations, closes and reconciliations only.
LeakBecomes(s) ==
  /\ s.nextPane <= MaxLeakPanes + 1
  /\ wins' = s.wins
  /\ nextPane' = s.nextPane
  /\ bottomPane' = s.bottomPane
  /\ resourcePanes' = s.resourcePanes
  /\ aiPanes' = s.aiPanes
  /\ activeResource' = s.activeResource
  /\ activeAIChat' = s.activeAIChat
  /\ stashedPanes' = s.stashedPanes
  /\ UNCHANGED windows
  /\ ManagerRuns

AttachResourceTerminalOK ==
  \E resourceID \in ResourceIDs :
    LET r == AttachResourceTerminal(State, resourceID, 0, FALSE, 0)
    IN /\ LeakBecomes(r.s)
       /\ Returned("AttachResourceTerminal", resourceID, r.err, r.note)

AttachAIChatOK ==
  LET r == AttachAIChat(State, 0, FALSE, 0)
  IN /\ LeakBecomes(r.s)
     /\ Returned("AttachAIChat", NoID, r.err, r.note)

CloseResourcePaneOK ==
  \E resourceID \in ResourceIDs :
    LET r == CloseResourcePane(State, resourceID, 0, FALSE, 0)
    IN /\ LeakBecomes(r.s)
       /\ Returned("CloseResourcePane", resourceID, r.err, r.note)

UpdateStatusBarOK ==
  /\ LeakBecomes(UpdateStatusBar(State, 0))
  /\ Returned("UpdateStatusBar", NoID, FALSE, "")

NextLeak ==
  \/ AttachResourceTerminalOK
  \/ AttachAIChatOK
  \/ CloseResourcePaneOK
  \/ UpdateStatusBarOK

\* ------------------------------------------- the two ContextShellPools
\* internal/embedded: GetOrCreate takes shellsMu for reading, then for writing.
\* pkg/controller: GetOrCreateContext has no lock and goes through the Manager,
\* which has none either; its goroutines interleave between any two statements
\* that are separated by a tmux call.
poolPrefix == "p"
ShellResourceID(ctx) == poolPrefix \o "-" \o ctx

InitShells ==
  /\ SetupDone
  /\ NoLRUPool
  /\ NoCalls
  /\ NoController
  /\ NoContext
  /\ NoMore
  /\ impl \in {"embedded", "pkgpool"}
  /\ watch = {"GetOrCreate"}
  /\ detail = TRUE

\* a step of a goroutine inside a pool call: the observer sees returns only
InsideCall ==
  /\ ~fatal
  /\ UNCHANGED <<windows, impl, lruVars, callers, ctlVars, ctxVars, fatal, convVars, srvVars, ptyVars>>
  /\ UNCHANGED <<last, hist, watch, detail>>

ManagerUntouched ==
  UNCHANGED <<wins, nextPane, bottomPane, resourcePanes, aiPanes, activeResource,
              activeAIChat, stashedPanes>>

At(c, place) == poolCalls[c].at = place
Moves(c, rec) == poolCalls' = [poolCalls EXCEPT ![c] = rec]

\* p.shellsMu.RLock()
EmbRLock ==
  \E c \in Callers, ctx \in Contexts :
    /\ impl = "embedded"
    /\ At(c, "idle")
    /\ shellsMu.writer = NoID
    /\ shellsMu' = [shellsMu EXCEPT !.readers = @ \cup {c}]
    /\ Moves(c, [NoPoolCall EXCEPT !.at = "rlocked", !.ctx = ctx])
    /\ UNCHANGED <<shells, shellWindows>>
    /\ ManagerUntouched
    /\ InsideCall

\* the lookup under the read lock, and RUnlock on either branch
EmbLookup ==
  \E c \in Callers :
    LET ctx == poolCalls[c].ctx
    IN /\ impl = "embedded"
       /\ At(c, "rlocked")
       /\ shellsMu' = [shellsMu EXCEPT !.readers = @ \ {c}]
       /\ IF ctx \in DOMAIN shells
          THEN Moves(c, [poolCalls[c] EXCEPT !.at = "done", !.ret = shells[ctx]])
          ELSE Moves(c, [poolCalls[c] EXCEPT !.at = "missed"])
       /\ UNCHANGED <<shells, shellWindows>>
       /\ ManagerUntouched
       /\ InsideCall

\* p.shellsMu.Lock(): waits until nobody reads or writes
EmbLock ==
  \E c \in Callers :
    /\ impl = "embedded"
    /\ At(c, "missed")
    /\ shellsMu = [readers |-> {}, writer |-> NoID]
    /\ shellsMu' = [shellsMu EXCEPT !.writer = c]
    /\ Moves(c, [poolCalls[c] EXCEPT !.at = "locked"])
    /\ UNCHANGED <<shells, shellWindows>>
    /\ ManagerUntouched
    /\ InsideCall

\* the double-check after acquiring the write lock
Recheck(m, ctx) == ctx \in DOMAIN m

\* under the write lock: the second lookup, NewWindow, the map write, and the
\* deferred Unlock; fail: new-window returns an error
EmbCreate ==
  \E c \in Callers, fail \in BOOLEAN :
    LET ctx == poolCalls[c].ctx
        winID == Cardinality(DOMAIN shellWindows) + 1
    IN /\ impl = "embedded"
       /\ At(c, "locked")
       /\ shellsMu' = [shellsMu EXCEPT !.writer = NoID]
       /\ IF Recheck(shells, ctx)
          THEN /\ Moves(c, [poolCalls[c] EXCEPT !.at = "done", !.ret = shells[ctx]])
               /\ UNCHANGED <<shells, shellWindows>>
          ELSE IF fail
          THEN /\ Moves(c, [poolCalls[c] EXCEPT !.at = "done", !.err = TRUE])
               /\ UNCHANGED <<shells, shellWindows>>
          ELSE /\ shellWindows' = shellWindows @@ (winID :> ctx)
               /\ shells' = (ctx :> winID) @@ shells
               /\ Moves(c, [poolCalls[c] EXCEPT !.at = "done", !.ret = winID])
       /\ ManagerUntouched
       /\ InsideCall

\* GetOrCreateContext: the lookup in p.shells
PkgBegin ==
  \E c \in Callers, ctx \in Contexts :
    /\ impl = "pkgpool"
    /\ At(c, "idle")
    /\ IF ctx \in DOMAIN shells
       THEN Moves(c, [NoPoolCall EXCEPT !.at = "done", !.ctx = ctx, !.ret = shells[ctx]])
       ELSE Moves(c, [NoPoolCall EXCEPT !.at = "missed", !.ctx = ctx])
    /\ UNCHANGED <<shells, shellsMu, shellWindows>>
    /\ ManagerUntouched
    /\ InsideCall

\* AttachResourceTerminal: the lookup in m.resourcePanes
PkgLookup ==
  \E c \in Callers :
    LET resourceID == ShellResourceID(poolCalls[c].ctx)
    IN /\ impl = "pkgpool"
       /\ At(c, "missed")
       /\ IF resourceID \in DOMAIN resourcePanes
          THEN Moves(c, [poolCalls[c] EXCEPT !.at = "have", !.pane = resourcePanes[resourceID]])
          ELSE Moves(c, [poolCalls[c] EXCEPT !.at = "creating"])
       /\ UNCHANGED <<shells, shellsMu, shellWindows>>
       /\ ManagerUntouched
       /\ InsideCall

\* AttachResourceTerminal: new-window, display-message and the write of
\* m.resourcePanes[resourceID], which replaces what another goroutine wrote
PkgCreate ==
  \E c \in Callers :
    LET resourceID == ShellResourceID(poolCalls[c].ctx)
        s == [State EXCEPT !.resourcePanes = Untrack(@, resourceID)]
    IN /\ impl = "pkgpool"
       /\ At(c, "creating")
       /\ Becomes(CreateResourcePane(s, resourceID, nextPane))
       /\ shellWindows' = shellWindows @@ (nextPane :> poolCalls[c].ctx)
       /\ Moves(c, [poolCalls[c] EXCEPT !.at = "have", !.pane = nextPane])
       /\ UNCHANGED <<shells, shellsMu>>
       /\ InsideCall

\* AttachResourceTerminal: the check of the main window and swap-pane
PkgSwap ==
  \E c \in Callers :
    LET resourcePane == poolCalls[c].pane
        currentPanes == listPanesInWindow(wins, mainWindow, FALSE)
        refused == Len(currentPanes.panes) # 2 \/ ~SwapOK(wins, bottomPane, resourcePane)
    IN /\ impl = "pkgpool"
       /\ At(c, "have")
       /\ IF refused
          THEN /\ Moves(c, [poolCalls[c] EXCEPT !.at = "done", !.err = TRUE])
               /\ ManagerUntouched
          ELSE /\ Moves(c, [poolCalls[c] EXCEPT !.at = "swapped"])
               /\ Becomes([State EXCEPT !.wins = SwapPane(wins, bottomPane, resourcePane)])
       /\ UNCHANGED <<shells, shellsMu, shellWindows>>
       /\ InsideCall

\* AttachResourceTerminal: bottomPane, the active markers, the stash list and
\* the status bar with its reconciliation
PkgFinish ==
  \E c \in Callers :
    LET s2 == [State EXCEPT !.bottomPane = poolCalls[c].pane,
                           !.activeResource = ShellResourceID(poolCalls[c].ctx),
                           !.activeAIChat = NoID]
    IN /\ impl = "pkgpool"
       /\ At(c, "swapped")
       /\ Becomes(UpdateStatusBar(updateStashTracking(s2, FALSE), 0))
       /\ Moves(c, [poolCalls[c] EXCEPT !.at = "attached"])
       /\ UNCHANGED <<shells, shellsMu, shellWindows>>
       /\ InsideCall

\* GetOrCreateContext: GetBottomPane and the write of p.shells[ctx]
PkgStore ==
  \E c \in Callers :
    /\ impl = "pkgpool"
    /\ At(c, "attached")
    /\ shells' = (poolCalls[c].ctx :> bottomPane) @@ shells
    /\ Moves(c, [poolCalls[c] EXCEPT !.at = "done", !.ret = bottomPane])
    /\ UNCHANGED <<shellsMu, shellWindows>>
    /\ ManagerUntouched
    /\ InsideCall

\* the places from which a goroutine's next statement writes a map, and those
\* from which it reads or writes one
WritesMap == {"creating", "attached"}
TouchesMap == {"missed", "creating", "attached"}

\* two goroutines of the lock-free pool reach a map at once, one of them
\* writing: the runtime may throw "concurrent map writes" and end the process
MapRaceThrow ==
  \E c \in Callers, d \in Callers :
    /\ impl = "pkgpool"
    /\ ~fatal
    /\ c # d
    /\ poolCalls[c].at \in WritesMap
    /\ poolCalls[d].at \in TouchesMap
    /\ fatal' = TRUE
    /\ UNCHANGED <<shells, shellsMu, shellWindows, poolCalls>>
    /\ ManagerUntouched
    /\ UNCHANGED <<windows, impl, lruVars, callers, ctlVars, ctxVars, convVars, srvVars, ptyVars>>
    /\ UNCHANGED <<last, hist, watch, detail>>

\* the call returns to its caller
PoolReturn ==
  \E c \in Callers :
    /\ ~fatal
    /\ At(c, "done")
    /\ Moves(c, NoPoolCall)
    /\ UNCHANGED <<shells, shellsMu, shellWindows, fatal>>
    /\ ManagerUntouched
    /\ UNCHANGED <<windows, impl, lruVars, callers, ctlVars, ctxVars, convVars, srvVars, ptyVars>>
    /\ ReturnedWith("GetOrCreate", poolCalls[c].ctx, poolCalls[c].err, "", poolCalls[c].ret)

NextShells ==
  \/ EmbRLock
  \/ EmbLookup
  \/ EmbLock
  \/ EmbCreate
  \/ PkgBegin
  \/ PkgLookup
  \/ PkgCreate
  \/ PkgSwap
  \/ PkgFinish
  \/ PkgStore
  \/ MapRaceThrow
  \/ PoolReturn

\* --------------------------------------------- the ConversationManager
\* Every method holds cm.mu for its whole body (SaveCompacted in two sections,
\* the lookup and the write), so calls take effect one at a time.  A
\* Conversation is followed by its State and by the Role of each of its Turns.
ConvIDs == {"c1", "c2"}
TurnRoles == {"user", "assistant"}
ConvOps == {"Start", "AddTurn", "End", "CompactHistory", "SaveCompacted", "Delete"}

InitConversations ==
  /\ SetupDone
  /\ NoLRUPool
  /\ NoSide
  /\ impl = "conversation"
  /\ watch = ConvOps
  /\ detail = TRUE

ConvRuns ==
  /\ impl = "conversation"
  /\ UNCHANGED <<wins, nextPane, bottomPane, resourcePanes, aiPanes, activeResource,
                 activeAIChat, stashedPanes, windows, impl, lruVars, callers, ctlVars,
                 ctxVars, shVars, srvVars, ptyVars>>

\* cm.conversations with the entry of id replaced
WithConv(cs, id, conv) == (id :> conv) @@ cs

\* ConversationManager.Start; id is what generateConversationID returned
Start(cs, id) ==
  [err |-> FALSE, cs |-> WithConv(cs, id, [State |-> "active", Turns |-> <<>>])]

\* if conv.State == StateEnded
Refuses(conv) == conv.State = "ended"

\* ConversationManager.AddTurn
AddTurn(cs, id, role) ==
  IF id \notin DOMAIN cs THEN [err |-> TRUE, cs |-> cs]
  ELSE IF Refuses(cs[id]) THEN [err |-> TRUE, cs |-> cs]
  ELSE [err |-> FALSE, cs |-> WithConv(cs, id, [cs[id] EXCEPT !.Turns = Append(@, role)])]

\* ConversationManager.End
End(cs, id) ==
  IF id \notin DOMAIN cs THEN [err |-> TRUE, cs |-> cs]
  ELSE [err |-> FALSE, cs |-> WithConv(cs, id, [cs[id] EXCEPT !.State = "ended"])]

\* ConversationManager.CompactHistory: the older turns become one system turn
CompactHistory(cs, id, keepRecent) ==
  IF id \notin DOMAIN cs THEN [err |-> TRUE, cs |-> cs]
  ELSE IF Len(cs[id].Turns) <= keepRecent THEN [err |-> FALSE, cs |-> cs]
  ELSE LET toCompact == Len(cs[id].Turns) - keepRecent
           kept == SubSeq(cs[id].Turns, toCompact + 1, Len(cs[id].Turns))
       IN [err |-> FALSE,
           cs |-> WithConv(cs, id, [State |-> "compacted", Turns |-> <<"system">> \o kept])]

\* ConversationManager.SaveCompacted
SaveCompacted(cs, id) ==
  IF id \notin DOMAIN cs THEN [err |-> TRUE, cs |-> cs]
  ELSE [err |-> FALSE, cs |-> WithConv(cs, id, [cs[id] EXCEPT !.State = "compacted"])]

\* ConversationManager.Delete
Delete(cs, id) ==
  IF id \notin DOMAIN cs THEN [err |-> TRUE, cs |-> cs]
  ELSE [err |-> FALSE, cs |-> Restrict(cs, DOMAIN cs \ {id})]

ConvBecomes(cs) ==
  /\ \A id \in DOMAIN cs : Len(cs[id].Turns) <= MaxTurns
  /\ conversations' = cs

\* a new conversation under an id, whether or not the id was in use
DoStart ==
  \E id \in ConvIDs :
    LET r == Start(conversations, id)
    IN /\ ConvBecomes(r.cs)
       /\ convEnded' = convEnded \ {id}
       /\ ConvRuns
       /\ Returned("Start", id, r.err, "")

DoAddTurn ==
  \E id \in ConvIDs, role \in TurnRoles :
    LET r == AddTurn(conversations, id, role)
    IN /\ ConvBecomes(r.cs)
       /\ UNCHANGED convEnded
       /\ ConvRuns
       /\ Returned("AddTurn", id, r.err, "")

DoEnd ==
  \E id \in ConvIDs :
    LET r == End(conversations, id)
    IN /\ ConvBecomes(r.cs)
       /\ convEnded' = IF r.err THEN convEnded ELSE convEnded \cup {id}
       /\ ConvRuns
       /\ Returned("End", id, r.err, "")

\* keepRecent is not negative (a negative one makes the slice expression panic)
DoCompactHistory ==
  \E id \in ConvIDs, keepRecent \in 0..MaxTurns :
    LET r == CompactHistory(conversations, id, keepRecent)
    IN /\ ConvBecomes(r.cs)
       /\ UNCHANGED convEnded
       /\ ConvRuns
       /\ Returned("CompactHistory", id, r.err, "")

DoSaveCompacted ==
  \E id \in ConvIDs :
    LET r == SaveCompacted(conversations, id)
    IN /\ ConvBecomes(r.cs)
       /\ UNCHANGED convEnded
       /\ ConvRuns
       /\ Returned("SaveCompacted", id, r.err, "")

DoDelete ==
  \E id \in ConvIDs :
    LET r == Delete(conversations, id)
    IN /\ ConvBecomes(r.cs)
       /\ convEnded' = convEnded \ {id}
       /\ ConvRuns
       /\ Returned("Delete", id, r.err, "")

NextConversations ==
  \/ DoStart
  \/ DoAddTurn
  \/ DoEnd
  \/ DoCompactHistory
  \/ DoSaveCompacted
  \/ DoDelete

\* ------------------------------------------------------ the AI Server
\* Start and Stop hold s.mu; every successful Start opens a listener and
\* starts an acceptLoop goroutine.  A loop is at its select on s.shutdown, or
\* inside Accept on the listener it read from s.listener, or has returned
\* (lst is the listener it last read).
InitServer ==
  /\ SetupDone
  /\ NoLRUPool
  /\ NoSide
  /\ impl = "server"
  /\ watch = {"Start", "Stop"}
  /\ detail = TRUE

ServerRuns ==
  /\ impl = "server"
  /\ UNCHANGED <<wins, nextPane, bottomPane, resourcePanes, aiPanes, activeResource,
                 activeAIChat, stashedPanes, windows, impl, lruVars, callers, ctlVars,
                 ctxVars, shVars, convVars, ptyVars>>

\* Start leaves s.shutdown as it finds it
Reopen(s) == s.shutdown

\* Server.Start; fail: net.Listen returns an error
Server_Start(s, fail) ==
  LET id == Len(s.listeners) + 1
  IN IF s.running THEN [err |-> TRUE, note |-> "server already running", s |-> s]
     ELSE IF fail THEN [err |-> TRUE, note |-> "failed to listen", s |-> s]
     ELSE [err |-> FALSE, note |-> "",
           s |-> [s EXCEPT !.listener = id,
                           !.listeners = Append(@, "open"),
                           !.running = TRUE,
                           !.shutdown = Reopen(s),
                           !.loops = Append(@, [at |-> "select", lst |-> 0])]]

\* Server.Stop: close of a closed channel panics
Server_Stop(s) ==
  IF ~s.running THEN [err |-> FALSE, note |-> "not running", s |-> s]
  ELSE IF s.shutdown = "closed"
  THEN [err |-> TRUE, note |-> "panic: close of closed channel",
        s |-> [s EXCEPT !.panicked = TRUE]]
  ELSE [err |-> FALSE, note |-> "stopped",
        s |-> [s EXCEPT !.shutdown = "closed",
                        !.listeners[s.listener] = "closed",
                        !.running = FALSE]]

ServerBecomes(s) ==
  /\ ~aiServer.panicked
  /\ Len(s.listeners) <= MaxStarts
  /\ s.accepted <= MaxConns
  /\ aiServer' = s

DoServerStart ==
  \E fail \in BOOLEAN :
    LET r == Server_Start(aiServer, fail)
    IN /\ ServerBecomes(r.s)
       /\ ServerRuns
       /\ Returned("Start", NoID, r.err, r.note)

DoServerStop ==
  LET r == Server_Stop(aiServer)
  IN /\ ServerBecomes(r.s)
     /\ ServerRuns
     /\ Returned("Stop", NoID, r.err, r.note)

\* acceptLoop, the select at the top of the loop, then the read of s.listener
LoopSelect ==
  \E g \in DOMAIN aiServer.loops :
    /\ aiServer.loops[g].at = "select"
    /\ ServerBecomes([aiServer EXCEPT !.loops[g] =
                        IF aiServer.shutdown = "closed" THEN [at |-> "returned", lst |-> 0]
                        ELSE [at |-> "accepting", lst |-> aiServer.listener]])
    /\ ServerRuns
    /\ UNCHANGED <<last, hist, watch, detail>>

\* acceptLoop, Accept fails on a closed listener: the loop returns when
\* s.shutdown is closed and goes round otherwise
LoopAcceptError ==
  \E g \in DOMAIN aiServer.loops :
    /\ aiServer.loops[g].at = "accepting"
    /\ aiServer.listeners[aiServer.loops[g].lst] = "closed"
    /\ ServerBecomes([aiServer EXCEPT !.loops[g] =
                        IF aiServer.shutdown = "closed" THEN [@ EXCEPT !.at = "returned"]
                        ELSE [at |-> "select", lst |-> 0]])
    /\ ServerRuns
    /\ UNCHANGED <<last, hist, watch, detail>>

\* acceptLoop, a client connects: Accept returns the connection, which is
\* handed to handleConnection, and the loop goes round
LoopAccept ==
  \E g \in DOMAIN aiServer.loops :
    /\ aiServer.loops[g].at = "accepting"
    /\ aiServer.listeners[aiServer.loops[g].lst] = "open"
    /\ ServerBecomes([aiServer EXCEPT !.loops[g] = [at |-> "select", lst |-> 0],
                                      !.accepted = @ + 1])
    /\ ServerRuns
    /\ UNCHANGED <<last, hist, watch, detail>>

NextServer ==
  \/ DoServerStart
  \/ DoServerStop
  \/ LoopSelect
  \/ LoopAcceptError
  \/ LoopAccept

\* ---------------------------------------------------------------- the PTY
\* errorChan has capacity 1 and, in these runs, no receiver.  reader is the
\* goroutine of StartReadLoop, waiter the goroutine SpawnTmux starts around
\* cmd.Wait; each is "none" until it is started and "done" once it returned.
ErrorCap == 1

InitPTY ==
  /\ SetupDone
  /\ NoLRUPool
  /\ NoSide
  /\ impl = "pty"
  /\ watch = {"SpawnTmux", "StartReadLoop", "Close"}
  /\ detail = TRUE

PTYRuns ==
  /\ impl = "pty"
  /\ UNCHANGED <<wins, nextPane, bottomPane, resourcePanes, aiPanes, activeResource,
                 activeAIChat, stashedPanes, windows, impl, lruVars, callers, ctlVars,
                 ctxVars, shVars, convVars, srvVars>>

\* a step of a goroutine or of the world around the PTY, which no caller sees
Silent == PTYRuns /\ UNCHANGED <<last, hist, watch, detail>>

\* p.errorChan <- err: goes through when the buffer has room, blocks otherwise
SendError(ch) ==
  IF Len(ch) < ErrorCap THEN [sent |-> TRUE, ch |-> Append(ch, "err")]
  ELSE [sent |-> FALSE, ch |-> ch]

\* PTY.SpawnTmux, once per PTY; fail: cmd.Start returns an error
DoSpawnTmux ==
  \E fail \in BOOLEAN :
    /\ pty.tmux = "none"
    /\ ~pty.closed
    /\ pty' = IF fail THEN pty ELSE [pty EXCEPT !.tmux = "running", !.waiter = "waiting"]
    /\ PTYRuns
    /\ Returned("SpawnTmux", NoID, fail, "")

\* PTY.StartReadLoop, once per PTY
DoStartReadLoop ==
  /\ pty.reader = "none"
  /\ pty' = [pty EXCEPT !.reader = "select"]
  /\ PTYRuns
  /\ Returned("StartReadLoop", NoID, FALSE, "")

\* PTY.Close
Close(p) ==
  IF p.closed THEN p
  ELSE [p EXCEPT !.closed = TRUE,
                 !.stopReadCh = "closed",
                 !.tmux = IF @ = "running" THEN "exited" ELSE @,
                 !.master = "closed"]

DoClose ==
  /\ pty' = Close(pty)
  /\ PTYRuns
  /\ Returned("Close", NoID, FALSE, IF pty.closed THEN "already closed" ELSE "")

\* the tmux server exits on its own (the last session ends, or it is killed)
TmuxExits ==
  /\ pty.tmux = "running"
  /\ pty' = [pty EXCEPT !.tmux = "exited"]
  /\ Silent

\* the wait goroutine: cmd.Wait returns
WaiterWakes ==
  /\ pty.waiter = "waiting"
  /\ pty.tmux = "exited"
  /\ pty' = [pty EXCEPT !.waiter = "sending"]
  /\ Silent

\* the wait goroutine: p.errorChan <- fmt.Errorf("tmux process exited")
WaiterSends ==
  LET r == SendError(pty.errorChan)
  IN /\ pty.waiter = "sending"
     /\ r.sent
     /\ pty' = [pty EXCEPT !.errorChan = r.ch, !.waiter = "done"]
     /\ Silent

\* the read loop: the select on stopReadCh at the top of the loop
ReaderSelects ==
  /\ pty.reader = "select"
  /\ pty' = [pty EXCEPT !.reader = IF pty.stopReadCh = "closed" THEN "done" ELSE "reading"]
  /\ Silent

\* the read loop: Master.Read returns bytes that tmux wrote
ReaderReads ==
  /\ pty.reader = "reading"
  /\ pty.master = "open"
  /\ pty.tmux = "running"
  /\ pty.chunks < MaxChunks
  /\ pty' = [pty EXCEPT !.reader = "sendingOutput", !.chunks = @ + 1]
  /\ Silent

\* the read loop: Master.Read returns an error, EOF once tmux is gone or the
\* error of a closed file after Close; either way the loop goes on to
\* send on errorChan
ReaderFails ==
  /\ pty.reader = "reading"
  /\ pty.master = "closed" \/ pty.tmux = "exited"
  /\ pty' = [pty EXCEPT !.reader = "sendingError"]
  /\ Silent

\* the read loop: select { case p.outputChan <- data: case <-p.stopReadCh: return }
ReaderSendsOutput ==
  /\ pty.reader = "sendingOutput"
  /\ \/ /\ pty.outputChan < MaxOutput
        /\ pty' = [pty EXCEPT !.outputChan = @ + 1, !.reader = "select"]
     \/ /\ pty.stopReadCh = "closed"
        /\ pty' = [pty EXCEPT !.reader = "done"]
  /\ Silent

\* the read loop: p.errorChan <- io.EOF (or <- err), then return
ReaderSendsError ==
  LET r == SendError(pty.errorChan)
  IN /\ pty.reader = "sendingError"
     /\ r.sent
     /\ pty' = [pty EXCEPT !.errorChan = r.ch, !.reader = "done"]
     /\ Silent

\* the embedding view takes a chunk from OutputChan
OutputTaken ==
  /\ pty.outputChan > 0
  /\ pty' = [pty EXCEPT !.outputChan = @ - 1]
  /\ Silent

NextPTY ==
  \/ DoSpawnTmux
  \/ DoStartReadLoop
  \/ DoClose
  \/ TmuxExits
  \/ WaiterWakes
  \/ WaiterSends
  \/ ReaderSelects
  \/ ReaderReads
  \/ ReaderFails
  \/ ReaderSendsOutput
  \/ ReaderSendsError
  \/ OutputTaken

\* the Go scheduler runs every goroutine that can take a step
FairPTY ==
  /\ WF_vars(WaiterWakes \/ WaiterSends)
  /\ WF_vars(ReaderSelects \/ ReaderReads \/ ReaderFails \/ ReaderSendsOutput
               \/ ReaderSendsError)

NextManager ==
  \/ DoAttachResourceTerminal
  \/ DoAttachAIChat
  \/ DoCloseResourcePane
  \/ DoShowAIChooser
  \/ DoUpdateStatusBar
  \/ ExternalKill
  \/ ExternalSplit

Next ==
  \/ NextManager
  \/ DoPoolGetOrCreate
  \/ DoPoolSwitch
  \/ DoPoolClose

\* the Manager with a user who also moves panes around
NextDrift ==
  \/ NextManager
  \/ ExternalSwap

\* the callers of either pool package, and the user of the LRU pool's session
NextPools ==
  \/ DoPoolGetOrCreate
  \/ DoPoolSwitch
  \/ DoPoolClose
  \/ NextLRU

\* the Manager-backed pool as the Manager's only caller, the status-bar
\* refresh that runs the reconciliation, and a user who kills panes
NextPoolOnly ==
  \/ DoPoolGetOrCreate
  \/ DoPoolSwitch
  \/ DoPoolClose
  \/ DoUpdateStatusBar
  \/ ExternalKill

Spec == Init /\ [][Next]_vars
SpecConcurrent == InitConcurrent /\ [][NextConcurrent]_vars
SpecController == InitController /\ [][NextController]_vars
SpecSwap == InitSwap /\ [][NextSwap]_vars
SpecShells == InitShells /\ [][NextShells]_vars
SpecLRUDead == InitLRU /\ [][NextLRUDead]_vars /\ FairCalls
SpecLeak == InitDrift /\ [][NextLeak]_vars
SpecConversations == InitConversations /\ [][NextConversations]_vars
SpecServer == InitServer /\ [][NextServer]_vars
SpecPTY == InitPTY /\ [][NextPTY]_vars /\ FairPTY
SpecFanOut == InitFanOut /\ [][NextFanOut]_vars /\ FairFanOut
SpecContext == InitContext /\ [][NextContext]_vars
SpecPoolOnly == InitPoolOnly /\ [][NextPoolOnly]_vars
SpecLRU == InitLRU /\ [][NextLRU]_vars
SpecPools == InitPools /\ [][NextPools]_vars
SpecQuiet == InitQuiet /\ [][NextManager]_vars
SpecActivate == InitActivate /\ [][NextManager]_vars
SpecClose == InitClose /\ [][NextManager]_vars
SpecReconcile == InitReconcile /\ [][NextManager]_vars
SpecPublic == InitPublic /\ [][NextManager]_vars
SpecDrift == InitDrift /\ [][NextDrift]_vars
SpecRoundTrip == InitRoundTrip /\ [][NextManager]_vars

\* ---------------------------------------------------------------- claims
\* every identity bound in the two maps, with its kind and its pane
Bindings ==
  {<<"res", id, resourcePanes[id]>> : id \in DOMAIN resourcePanes}
  \cup {<<"ai", id, aiPanes[id]>> : id \in DOMAIN aiPanes}

\* C1: no two identities bound in resourcePanes and aiPanes, taken
\* together, map to the same pane id.
C1_Uniqueness ==
  \A b1 \in Bindings, b2 \in Bindings : b1[3] = b2[3] => b1 = b2

\* a pooled resource and an AI chat are bound at the same time
C1_Witness ==
  /\ "x" \in DOMAIN windows
  /\ (prefix \o "x") \in DOMAIN resourcePanes
  /\ DOMAIN aiPanes # {}

\* the last three calls were successful activations of A, of B and of A again
RoundTripDone ==
  /\ last.op = "AttachResourceTerminal" /\ ~last.err
  /\ hist[1].op = "AttachResourceTerminal"
  /\ hist[2].op = "AttachResourceTerminal"
  /\ hist[2].arg = last.arg

\* C2: after AttachResourceTerminal(A), AttachResourceTerminal(B),
\* AttachResourceTerminal(A) all succeed, resourcePanes[A] is the pane it was
\* after the first call and that pane is bottomPane again.
C2_RoundTrip ==
  RoundTripDone =>
    /\ PaneOf(resourcePanes, last.arg) = hist[2].pane
    /\ bottomPane = hist[2].pane

\* the round trip happened with two different resources
C2_Witness == RoundTripDone /\ hist[1].arg # last.arg

\* C5: activeResource and activeAIChat are never both non-empty.
C5_OneActive == ~(activeResource # NoID /\ activeAIChat # NoID)

\* an AI chat holds the slot while a resource that was activated is still bound
C5_Witness ==
  /\ activeAIChat # NoID
  /\ DOMAIN resourcePanes # {}
  /\ aiPanes[activeAIChat] = bottomPane

Activations == {"AttachResourceTerminal", "AttachAIChat"}

\* the Registry and the Slot state are what they were before the step
RegistryUnchanged == resourcePanes' = resourcePanes /\ aiPanes' = aiPanes
SlotUnchanged ==
  /\ bottomPane' = bottomPane
  /\ activeResource' = activeResource
  /\ activeAIChat' = activeAIChat

\* C3: an activation called while the main window does not hold exactly 2
\* panes returns an error and leaves the Registry and the Slot state as they
\* were.
C3_PreconditionFailure ==
  [][(last'.op \in Activations /\ Len(wins[mainWindow]) # 2)
       => (last'.err /\ RegistryUnchanged /\ SlotUnchanged)]_vars

\* C4: after every public Manager operation, successful or not, every entry
\* of resourcePanes and aiPanes maps to a live pane.
C4_BindingsLive ==
  last.op \in PublicOps => \A b \in Bindings : b[3] \in LivePanes(wins)

\* C6: whenever an activation returns an error, bottomPane and the active
\* markers are what they were before the call, and the main window shows the
\* same panes.
C6_FailedActivate ==
  [][(last'.op \in Activations /\ last'.err)
       => (SlotUnchanged /\ wins'[mainWindow] = wins[mainWindow])]_vars

\* an activation of a new identity failed at the swap, after its pane was made
C6_Witness ==
  /\ last.op \in Activations /\ last.err
  /\ last.note \in {"swap pane failed", "expected 2 panes"}
  /\ Bindings # {}

C8_FailedClose ==
  [][(last'.op = "CloseResourcePane" /\ last'.err)
       => /\ wins'[mainWindow] = wins[mainWindow]
          /\ SlotUnchanged
          /\ RegistryUnchanged]_vars

\* C9: CloseResourcePane on a bound identity that is not the active one
\* destroys only that identity's pane and removes only its Binding;
\* bottomPane, the active markers and every other Binding are unchanged and
\* the main window keeps its panes.
C9_CloseStashed ==
  [][(last'.op = "CloseResourcePane" /\ ~last'.err /\ last'.arg # activeResource)
       => /\ LivePanes(wins') = LivePanes(wins) \ {resourcePanes[last'.arg]}
          /\ resourcePanes' = Restrict(resourcePanes, DOMAIN resourcePanes \ {last'.arg})
          /\ aiPanes' = aiPanes
          /\ SlotUnchanged
          /\ wins'[mainWindow] = wins[mainWindow]]_vars

\* every tracked pane and the slot pane exist
AllTrackedLive ==
  /\ \A b \in Bindings : b[3] \in LivePanes(wins)
  /\ bottomPane \in LivePanes(wins)

\* C9 (amended): when every tracked pane and the slot pane are live,
\* CloseResourcePane on a bound identity that is not the active one and whose
\* pane is stashed (outside the main window, not recorded as bottomPane)
\* destroys only that identity's pane and removes only its Binding;
\* bottomPane, the active markers and every other Binding are unchanged and
\* the main window keeps its panes.
C9_CloseStashedLive ==
  [][(/\ last'.op = "CloseResourcePane" /\ ~last'.err
      /\ last'.arg # activeResource
      /\ resourcePanes[last'.arg] # bottomPane
      /\ resourcePanes[last'.arg] \notin Range(wins[mainWindow])
      /\ AllTrackedLive)
       => /\ LivePanes(wins') = LivePanes(wins) \ {resourcePanes[last'.arg]}
          /\ resourcePanes' = Restrict(resourcePanes, DOMAIN resourcePanes \ {last'.arg})
          /\ aiPanes' = aiPanes
          /\ SlotUnchanged
          /\ wins'[mainWindow] = wins[mainWindow]]_vars

\* a stashed resource has just been closed while another identity holds the slot
C9_Witness ==
  /\ last.op = "CloseResourcePane" /\ ~last.err /\ last.note = "stashed"
  /\ Bindings # {}
  /\ \E b \in Bindings : b[3] = bottomPane
  /\ Len(wins[mainWindow]) = 2

\* C10: a reconciliation pass removes exactly the Bindings whose pane is not
\* in the live enumeration and keeps every other Binding with its handle.
C10_Reconcile ==
  [][(last'.op = "UpdateStatusBar" /\ last'.note # "no enumeration")
       => /\ \A id \in DOMAIN resourcePanes :
               IF resourcePanes[id] \in LivePanes(wins)
               THEN PaneOf(resourcePanes', id) = resourcePanes[id]
               ELSE id \notin DOMAIN resourcePanes'
          /\ \A id \in DOMAIN aiPanes :
               IF aiPanes[id] \in LivePanes(wins)
               THEN PaneOf(aiPanes', id) = aiPanes[id]
               ELSE id \notin DOMAIN aiPanes'
          /\ DOMAIN resourcePanes' \subseteq DOMAIN resourcePanes
          /\ DOMAIN aiPanes' \subseteq DOMAIN aiPanes]_vars

\* a pass has just removed a Binding and kept another
C10_Witness ==
  /\ last.op = "UpdateStatusBar" /\ last.note = "removed"
  /\ Bindings # {}

\* C11: when a reconciliation pass removes the Binding of the active
\* identity it clears that identity's marker, for resources and AI chats
\* alike.
C11_ClearsMarker ==
  [][(last'.op = "UpdateStatusBar" /\ last'.note # "no enumeration")
       => /\ (activeResource \in DOMAIN resourcePanes
               /\ activeResource \notin DOMAIN resourcePanes')
                => activeResource' = NoID
          /\ (activeAIChat \in DOMAIN aiPanes /\ activeAIChat \notin DOMAIN aiPanes')
                => activeAIChat' = NoID]_vars

ManagerFields ==
  <<wins, nextPane, bottomPane, resourcePanes, aiPanes, activeResource,
    activeAIChat, stashedPanes>>

\* C12: a reconciliation pass that directly follows a pass whose tmux calls
\* succeeded changes nothing: no Binding goes, no pane is created, and
\* bottomPane and the active markers stay.
C12_Idempotent ==
  [][(last.op = "UpdateStatusBar" /\ PassDone(last.note)
      /\ last'.op = "UpdateStatusBar")
       => UNCHANGED ManagerFields]_vars

\* a second pass has run right after a pass, over a Registry that is not empty
C12_Witness ==
  /\ last.op = "UpdateStatusBar" /\ last.note = "again"
  /\ Bindings # {}

C14_LayoutRepaired ==
  (last.op \in PublicOps /\ ~last.err)
    => /\ Len(wins[mainWindow]) = 2
       /\ Range(wins[mainWindow]) = {tuiPane, bottomPane}
       /\ bottomPane \in LivePanes(wins)

\* C15: a pool built with maxWindows = N > 0 never holds more than N entries,
\* whatever GetOrCreate and Close calls were made and however they returned;
\* this holds for the LRU pool and for the Manager-backed pool.
C15_PoolBound ==
  /\ lruMaxWindows > 0 => Cardinality(lruWindows) <= lruMaxWindows
  /\ maxWindows > 0 => Cardinality(DOMAIN windows) <= maxWindows

\* a full LRU pool has just taken a new name
C15_Witness ==
  /\ last.op = "LRU.GetOrCreate" /\ last.note = "evicted"
  /\ Cardinality(lruWindows) = lruMaxWindows

\* a step in which GetOrCreate of a name without an entry met a full pool
EvictionDue ==
  /\ last'.op = "LRU.GetOrCreate"
  /\ last'.arg \notin lruWindows
  /\ NeedsEviction(LRUState, lruMaxWindows)

\* C16: whatever its controller calls return, evictLRU neither closes nor
\* drops the entry of the window that is active; when that entry is the only
\* one, it returns an error instead.
C16_ActiveProtected ==
  [][EvictionDue =>
       /\ ActiveName(LRUState) \in lruWindows
            => /\ ActiveName(LRUState) \in lruWindows'
               /\ activeWin \in DOMAIN session'
               /\ session'[activeWin] = session[activeWin]
       /\ lru = <<ActiveName(LRUState)>>
            => last'.err /\ lruWindows' = lruWindows]_vars

\* the entries that are not the active window, most recently accessed first
Evictable == SelectSeq(lru, LAMBDA e : e # ActiveName(LRUState))

\* C17: the entry a GetOrCreate of an unbound name evicts from a full pool is
\* the least recently accessed one among those that are not active.
C17_EvictsLRU ==
  [][(EvictionDue /\ lruWindows \ lruWindows' # {})
       => /\ Evictable # <<>>
          /\ lruWindows \ lruWindows' = {Evictable[Len(Evictable)]}]_vars

\* C18: when the pool is full and its only entry is the active window,
\* GetOrCreate of a new name returns an error and changes neither the pool's
\* members, nor their order, nor the windows of the session.
C18_CapacityExceeded ==
  [][(EvictionDue /\ lru = <<ActiveName(LRUState)>>)
       => /\ last'.err
          /\ UNCHANGED <<lruWindows, lru, session, activeWin>>]_vars

\* the windows of the session after the step that were not there before it
NewWindows ==
  {i \in DOMAIN session' : i \notin DOMAIN session \/ session'[i] # session[i]}

\* C19: when setupFunc fails for a window GetOrCreate has just created (and
\* tmux carries out the close), the call returns the error, the new window
\* is closed again, and the name is neither in the name map nor in the
\* recency list.
C19_SetupFailure ==
  [][(last'.op = "LRU.GetOrCreate" /\ last'.note = "setup failed")
       => /\ last'.err
          /\ NewWindows = {}
          /\ last'.arg \notin lruWindows'
          /\ last'.arg \notin Range(lru')]_vars

\* C20: when the setup function fails in the Manager-backed pool, GetOrCreate
\* returns the error, the pool's entries are what they were before the call,
\* and the pane made for the id is gone again.
C20_ManagerSetupFailure ==
  [][(last'.op = "Pool.GetOrCreate" /\ last'.note = "setup function failed")
       => /\ last'.err
          /\ windows' = windows
          /\ LivePanes(wins') \subseteq LivePanes(wins)]_vars

\* C21: whenever the LRU pool's GetOrCreate returns an error for a name
\* that had no entry, the names in the pool are the ones from before the call.
C21_FailedGetOrCreate ==
  [][(last'.op = "LRU.GetOrCreate" /\ last'.err /\ last'.arg \notin lruWindows)
       => lruWindows' = lruWindows]_vars

\* the entries of a recency list other than name, in their order
Others(order, name) == SelectSeq(order, LAMBDA e : e # name)

\* C22: a GetOrCreate of the LRU pool that succeeds on a name that has an
\* entry leaves the session's windows and the pool's entries as they were,
\* puts the name at the front of the recency list without reordering the
\* others, and returns the window id stored in the entry; a GetOrCreate that
\* succeeds on a name without an entry returns the id it stores in the entry.
C22_ExistingName ==
  [][(last'.op = "LRU.GetOrCreate" /\ ~last'.err)
       => IF last'.arg \in lruWindows
          THEN /\ session' = session
               /\ lruWindows' = lruWindows
               /\ lruWindowID' = lruWindowID
               /\ Len(lru') = Len(lru)
               /\ lru'[1] = last'.arg
               /\ Others(lru', last'.arg) = Others(lru, last'.arg)
               /\ last'.ret = lruWindowID[last'.arg]
          ELSE /\ last'.arg \in lruWindows'
               /\ last'.ret = lruWindowID'[last'.arg]]_vars

\* C22 witness: GetOrCreate succeeded on one of two entries and returned its id.
C22_Witness ==
  /\ last.op = "LRU.GetOrCreate"
  /\ last.note = "exists"
  /\ Len(lru) = 2
  /\ lru[1] = last.arg
  /\ last.ret = lruWindowID[last.arg]
  /\ last.ret # lruWindowID[lru[2]]

\* C23: with the Manager-backed pool as the only caller of the Manager, an
\* id has an entry in the pool's windows map exactly when prefix+id is bound
\* in resourcePanes, whatever pool calls, reconciliation passes and pane
\* kills came before.
C23_InStep ==
  \A id \in PoolIDs : id \in DOMAIN windows <=> (prefix \o id) \in DOMAIN resourcePanes

\* C25: after an activation that returned without error, every bound resource
\* other than the active one whose pane is alive outside the main window is in
\* GetStashedResources and has the label "stashed" in GetPaneInfo.
C25_StashReported ==
  (last.op \in {"AttachResourceTerminal", "AttachAIChat"} /\ ~last.err)
    => \A resID \in DOMAIN resourcePanes :
         (/\ resID # activeResource
          /\ resourcePanes[resID] \in LivePanes(wins) \ Range(wins[mainWindow]))
           => /\ resID \in GetStashedResources(State)
              /\ GetPaneInfo(State)[resID] = "stashed"

\* C27: when AttachResourceTerminal or AttachAIChat has created the window of
\* a new identity and the query for its pane id fails, the call returns an
\* error and resourcePanes and aiPanes are the maps from before the call.
C27_NoHalfBinding ==
  [][(last'.op \in {"AttachResourceTerminal", "AttachAIChat"} /\ last'.note = "get pane ID")
       => /\ last'.err
          /\ resourcePanes' = resourcePanes
          /\ aiPanes' = aiPanes]_vars

\* C27 witness: the window of a new resource exists, its pane id could not be
\* read, and the resource is unbound next to an earlier Binding.
C27_Witness ==
  /\ last.op = "AttachResourceTerminal"
  /\ last.note = "get pane ID"
  /\ last.err
  /\ last.arg \notin DOMAIN resourcePanes
  /\ DOMAIN resourcePanes # {}
  /\ <<nextPane - 1>> \in {wins[w] : w \in DOMAIN wins}

\* C24: calls of AttachResourceTerminal on one Manager run one at a time: no
\* goroutine is inside a call while another has swapped the panes and not yet
\* written bottomPane and the active markers, and when no call is running the
\* Manager is in a state a sequence of whole calls leaves: bottomPane is the
\* pane in the slot and it is the pane of the active resource.
C24_Serialized ==
  /\ \A c, d \in Callers :
       (c # d /\ callers[c].at = "swapped") => callers[d].at = "idle"
  /\ NoCalls => /\ bottomPane \in Range(wins[mainWindow])
                /\ activeResource # NoID => resourcePanes[activeResource] = bottomPane

\* C26: right after an Init of the TmuxController that returned without
\* error, each of the roles top, left and right resolves through GetPaneID to
\* a pane of the session, and the three panes are pairwise distinct.
C26_RolesResolve ==
  (last.op = "Init" /\ ~last.err)
    => /\ \A role \in Roles : GetPaneID(Ctl, role, FALSE).ok
       /\ \A r1, r2 \in Roles : r1 # r2 => sessionVars[r1] # sessionVars[r2]

\* C29: every tmux command issued from a fan-out goroutine is a read-only
\* query (show-options, list-panes).
C29_ReadOnlyFanOut == workerCalls \subseteq LookupCalls

\* getAllPaneIDs has returned: three results were taken, the channel is empty,
\* every goroutine is done and every role holds its own goroutine's result
FanReturned ==
  fan.at = "returned"
    => /\ fan.n = 3
       /\ fan.results = <<>>
       /\ \A r \in Roles : /\ fan.workers[r].at = "done"
                            /\ fan.got[r] = [id |-> fan.workers[r].id, ok |-> fan.workers[r].ok]

\* a goroutine about to send finds room in the channel
FanNeverBlocked ==
  \A r \in Roles : fan.workers[r].at = "send" => Len(fan.results) < ResultsCap

\* C30: when getAllPaneIDs has returned it took exactly three results off the
\* channel, every role holds the id and flag that role's own goroutine looked
\* up, and every goroutine has finished its send; a goroutine that is about
\* to send finds room in the channel; and a started getAllPaneIDs returns.
C30_FanOut ==
  /\ [](FanReturned /\ FanNeverBlocked)
  /\ (fan.at = "collect") ~> (fan.at = "returned")

\* C30 witness: the results arrived in the order right, left, top, the pane
\* of right was gone, and getAllPaneIDs returned top as found.
C30_Witness ==
  /\ fan.at = "returned"
  /\ fan.order = <<"right", "left", "top">>
  /\ fan.got["top"] = [id |-> 1, ok |-> TRUE]
  /\ ~fan.got["right"].ok

\* how often ch is registered, and n copies of a context
Registrations(ch) == Cardinality({i \in 1..Len(subscribers) : subscribers[i] = ch})
Copies(n, c) == [i \in 1..n |-> c]
Room(ch) == chans[ch].cap - Len(chans[ch].buf)
Min(a, b) == IF a < b THEN a ELSE b

\* C28 as claimed: every Set puts the resulting context on every registered
\* channel, once per registration, whatever the channel's buffer holds.
C28_DeliversToAll ==
  [][last'.op = "Set"
       => \A ch \in Chans :
            chans'[ch].buf = chans[ch].buf \o Copies(Registrations(ch), cmCtx')]_vars

\* C28 amended: every Set puts the resulting context on every registered channel,
\* once per registration, as far as the channel's buffer has room, and leaves a
\* full buffer as it is.
C28_DeliversWhereRoom ==
  [][last'.op = "Set"
       => \A ch \in Chans :
            chans'[ch].buf =
              chans[ch].buf \o Copies(Min(Registrations(ch), Room(ch)), cmCtx')]_vars

\* C28 witness: a Set found the buffer of one registered channel full and put
\* the new context on the other one.
C28_Witness ==
  /\ last.op = "Set"
  /\ last.note = "skipped"
  /\ Range(subscribers) = Chans
  /\ \E ch \in Chans :
       /\ chans[ch].buf # <<>>
       /\ chans[ch].buf[Len(chans[ch].buf)] = cmCtx
  /\ \E ch \in Chans :
       /\ Len(chans[ch].buf) = chans[ch].cap
       /\ chans[ch].buf[Len(chans[ch].buf)] # cmCtx

\* C31: an AttachAIChat call that gets as far as recording its chat records it
\* as ai-n, bound to the pane just created, where n is the smallest positive
\* integer with ai-n unbound before the call; no other key is added.
C31_SmallestFree ==
  [][(last'.op = "AttachAIChat" /\ last'.note \notin {"create AI chat window", "get pane ID"})
       => \E n \in 1..(Cardinality(DOMAIN aiPanes) + 1) :
            /\ \A j \in 1..(n - 1) : AIChatID(j) \in DOMAIN aiPanes
            /\ AIChatID(n) \notin DOMAIN aiPanes
            /\ AIChatID(n) \in DOMAIN aiPanes'
            /\ aiPanes'[AIChatID(n)] = nextPane
            /\ DOMAIN aiPanes' \subseteq DOMAIN aiPanes \cup {AIChatID(n)}]_vars

\* C31 witness: a chat was created as ai-2 next to the bound ai-1 and holds the slot.
C31_Witness ==
  /\ last.op = "AttachAIChat"
  /\ ~last.err
  /\ activeAIChat = "ai-2"
  /\ DOMAIN aiPanes = {"ai-1", "ai-2"}
  /\ aiPanes["ai-2"] = bottomPane
  /\ aiPanes["ai-1"] # aiPanes["ai-2"]

\* C32: after every public Manager operation, an active resource or an active
\* chat is bound to bottomPane, and when neither is set no Binding holds
\* bottomPane.
C32_SlotIsActive ==
  last.op \in PublicOps
    => /\ activeResource # NoID
            => /\ activeResource \in DOMAIN resourcePanes
               /\ resourcePanes[activeResource] = bottomPane
       /\ activeAIChat # NoID
            => /\ activeAIChat \in DOMAIN aiPanes
               /\ aiPanes[activeAIChat] = bottomPane
       /\ (activeResource = NoID /\ activeAIChat = NoID)
            => \A b \in Bindings : b[3] # bottomPane

\* every role's option names a live pane, no two roles name one pane, and the
\* pane of a role sits at the role's place in the window (top, left, right)
RolesInPlace ==
  /\ Len(cpanes) >= 3
  /\ \A role \in Roles : sessionVars[role] = cpanes[IndexOf(RoleList, role)]
  /\ \A r1 \in Roles, r2 \in Roles : r1 # r2 => sessionVars[r1] # sessionVars[r2]

\* C33: on a session whose roles are bound one-to-one with each pane at its
\* role's place, as a successful Init leaves it, every SwapPanes call, whatever
\* tmux commands fail in it and however it returns, leaves them so.
C33_SwapKeepsRoles ==
  [][(last'.op = "SwapPanes" /\ RolesInPlace) => RolesInPlace']_vars

\* the windows tmux holds for a context's shell
WindowsFor(ctx) == {w \in DOMAIN shellWindows : shellWindows[w] = ctx}

\* C34: however GetOrCreate calls of a ContextShellPool interleave, no context
\* has more than one window created for it, and every call that has returned
\* without error has returned the id of that one window.
C34_OneWindowPerContext ==
  /\ \A ctx \in Contexts : Cardinality(WindowsFor(ctx)) <= 1
  /\ \A c \in Callers :
       (poolCalls[c].at = "done" /\ ~poolCalls[c].err)
         => WindowsFor(poolCalls[c].ctx) = {poolCalls[c].ret}

\* an entry of the LRU pool whose window is no longer in the session
DeadEntry(name) ==
  namePrefix \o name \in lruWindows /\ WindowsNamed(session, namePrefix \o name) = {}

\* C35: when the caller keeps calling Close, an entry whose window was
\* destroyed outside the program is eventually out of the pool.
C35_DeadEntryLeaves ==
  \A name \in LRUNames : DeadEntry(name) ~> (namePrefix \o name \notin lruWindows)

\* C37: in the LRU pool, after every GetOrCreate and Close, however it
\* returned, the recency list holds each name of the map exactly once and
\* nothing else, and the two have the same size.
C37_ListMatchesMap ==
  /\ Range(lru) = lruWindows
  /\ Len(lru) = Cardinality(lruWindows)
  /\ DOMAIN lruWindowID = lruWindows

\* C37 witness: a GetOrCreate that returned an error after it had tracked its
\* new window, next to an entry that was there before.
C37_Witness ==
  /\ last.op = "LRU.GetOrCreate"
  /\ last.err
  /\ last.note = "failed to switch to new window"
  /\ Len(lru) = 2
  /\ lru[1] = last.arg
  /\ lruWindows = {lru[1], lru[2]}

\* the live panes that are neither the TUI pane, nor the slot handle, nor the
\* handle of a Binding
Untracked ==
  LivePanes(wins) \ ({tuiPane, bottomPane} \cup {b[3] : b \in Bindings})

\* C36: over any sequence of activations, closes and reconciliations in which
\* every tmux call succeeds, the live panes that are neither the TUI pane, the
\* slot handle nor the handle of a Binding number at most two: what a Manager
\* that cleans up after itself may leave untracked is the shell of the stash
\* window and one placeholder that was swapped out of the slot.
C36_NoLeak == Cardinality(Untracked) <= 2

\* C38: once End(id) has succeeded on a conversation, every AddTurn(id, ...)
\* on it returns an error and leaves its turn list as it was, whatever
\* CompactHistory and SaveCompacted calls were made since.
C38_EndedIsTerminal ==
  [][(last'.op = "AddTurn" /\ last'.arg \in convEnded)
       => /\ last'.err
          /\ conversations'[last'.arg].Turns = conversations[last'.arg].Turns]_vars

\* an accept loop that has not returned and is at its select or inside
\* Accept on the current listener
Serving(g) ==
  \/ aiServer.loops[g].at = "select"
  \/ aiServer.loops[g].at = "accepting" /\ aiServer.loops[g].lst = aiServer.listener

\* C39: whatever Start and Stop calls were made on a Server, none has
\* panicked, and while running is true some accept loop is serving the
\* current listener.
C39_RunningServes ==
  /\ ~aiServer.panicked
  /\ aiServer.running => \E g \in DOMAIN aiServer.loops : Serving(g)

\* a goroutine of the PTY that was never started or has returned
Gone(g) == g \in {"none", "done"}

\* C40: once PTY.Close has run, the read loop and the wait goroutine both
\* return, with nobody receiving from ErrorChan.
C40_GoroutinesEnd == pty.closed ~> (Gone(pty.reader) /\ Gone(pty.waiter))
====
